---- MODULE Spec2Model ----
(***************************************************************************)
(* Hybrid retrieval engine of backend/langgraph/nodes/policy_retriever.py: *)
(* the embedding cache (_embed_text and its module-level dict + list) and  *)
(* the retrieval node (policy_retriever_node).                             *)
(***************************************************************************)
EXTENDS Integers, Sequences, FiniteSets, TLC

(***************************************************************************)
(* Program constants                                                       *)
(***************************************************************************)
EMBEDDING_CACHE_SIZE == 30

EMBEDDING_DIMENSION == 1536

(***************************************************************************)
(* Bounds of the model                                                     *)
(***************************************************************************)
\* keys already cached (by earlier sequential calls) in the warm initial state
Prefill == 29

\* provider-backed insertions after the initial state
MaxInserts == 3

Threads == {1, 2}

(***************************************************************************)
(* Texts, keys and vectors                                                 *)
(***************************************************************************)
\* A text is its stripped body (0 is the empty string) and whether it
\* carries surrounding whitespace.  The callers ask for the oldest warm text
\* and for two texts never embedded before.
Bodies == {1, Prefill + 1, Prefill + 2}

Texts == [body : Bodies \cup {0}, ws : BOOLEAN]

\* (text or "").strip()
Strip(text) == text.body

\* hashlib.md5(text_to_embed.encode("utf-8")).hexdigest(): one key per body
CacheKey(body) == [md5 |-> body]

\* what the provider may answer for one text
ProviderVals == {1, 2}

Vector(v) == [dim |-> EMBEDDING_DIMENSION, val |-> v]

\* [0.0] * 1536
ZeroVector == [dim |-> EMBEDDING_DIMENSION, val |-> 0]

NoVector == [dim |-> 0, val |-> 0]

NoKey == [md5 |-> 0]

Range(s) == {s[i] : i \in 1 .. Len(s)}

VARIABLES
    cache,        \* _embedding_cache: key -> vector
    cache_order,  \* _cache_order: FIFO queue of keys
    pc,           \* per thread: position inside _embed_text
    loc,          \* per thread: locals of the running _embed_text call
    inserted,     \* history: keys in the order they were stored
    prev,         \* history: the last completed call
    npc,          \* policy_retriever_node: the stage the request is at
    req,          \* policy_retriever_node: the input state
    rag_docs,     \* policy_retriever_node: rag_docs
    bm25_terms,   \* policy_retriever_node: bm25_terms
    hist,         \* history: what the stages of the request saw
    out,          \* state["retrieval"] / state["rag_snippets"] as returned
    connection_pool,  \* _connection_pool: None (0) or a pool instance
    pools,        \* the pool instances created, each with its connections in use
    ppc,          \* per request: position between lines 617 and 621
    ploc,         \* per request: the pool instance _get_connection_pool returned
    fn_args,      \* the arguments of a call of one of the pure functions
    fn_result,    \* what that call returned
    gnode,        \* sermon agent graph: the node the run is at
    sermon_state, \* sermon agent graph: the State of the run
    executed,     \* history: the nodes of the run that have executed
    session,      \* a ConversationSession
    since_clear   \* history: the messages added since the last clear

nodeVars == <<npc, req, rag_docs, bm25_terms, hist, out>>

cacheVars == <<cache, cache_order, pc, loc, inserted, prev>>

poolVars == <<connection_pool, pools, ppc, ploc>>

fnVars == <<fn_args, fn_result>>

agentVars == <<gnode, sermon_state, executed, session, since_clear>>

vars == <<cache, cache_order, pc, loc, inserted, prev, npc, req, rag_docs,
          bm25_terms, hist, out, connection_pool, pools, ppc, ploc, fn_args,
          fn_result, gnode, sermon_state, executed, session, since_clear>>

IdleLoc ==
    [key |-> NoKey, embedding |-> NoVector, oldest |-> NoKey, ret |-> NoVector,
     consulted |-> "no", prov |-> 0, puts |-> 0, failed |-> FALSE,
     raised |-> FALSE, evicted |-> FALSE]

NoPrev == [key |-> NoKey, ret |-> NoVector, failed |-> FALSE, prov |-> 0]

WarmKeys(n) == [i \in 1 .. n |-> CacheKey(i)]

\* the cache after n sequential calls that each stored one new text (none:
\* the module right after import)
CacheAfter(n) ==
    /\ cache_order = WarmKeys(n)
    /\ cache = [k \in Range(WarmKeys(n)) |-> Vector(1)]
    /\ inserted = WarmKeys(n)

InitThreads ==
    /\ pc = [t \in Threads |-> "idle"]
    /\ loc = [t \in Threads |-> IdleLoc]
    /\ prev = NoPrev

InFlight == Cardinality({t \in Threads : pc[t] # "idle"})

\* calls that hold a provider answer they have not stored yet
Storing == Cardinality({t \in Threads : pc[t] = "store"})

(***************************************************************************)
(* _embed_text, one action per step a concurrent thread can be between     *)
(***************************************************************************)
EnterCallNoShortcut(t, text) ==
    /\ pc[t] = "idle"
    /\ loc' = [loc EXCEPT ![t] = [IdleLoc EXCEPT !.key = CacheKey(Strip(text))]]
    /\ pc' = [pc EXCEPT ![t] = "lookup"]
    /\ UNCHANGED <<cache, cache_order, inserted, prev>>

\* lines 134-141: strip, the empty-text shortcut, the cache key
EnterCall(t, text) ==
    /\ pc[t] = "idle"
    /\ IF Strip(text) = 0
          THEN /\ loc' = [loc EXCEPT ![t] = [IdleLoc EXCEPT !.ret = ZeroVector]]
               /\ pc' = [pc EXCEPT ![t] = "ret"]
          ELSE /\ loc' = [loc EXCEPT ![t] = [IdleLoc EXCEPT !.key = CacheKey(Strip(text))]]
               /\ pc' = [pc EXCEPT ![t] = "lookup"]
    /\ UNCHANGED <<cache, cache_order, inserted, prev>>

\* a caller other than the retrieval node enters _embed_text
EmbedEnter(t, text) ==
    /\ EnterCall(t, text)
    /\ UNCHANGED nodeVars
    /\ UNCHANGED <<poolVars, fnVars, agentVars>>

\* line 145: if cache_key in _embedding_cache
CacheLookup(t) ==
    /\ pc[t] = "lookup"
    /\ IF loc[t].key \in DOMAIN cache
          THEN /\ loc' = [loc EXCEPT ![t].consulted = "hit"]
               /\ pc' = [pc EXCEPT ![t] = "hit"]
          ELSE /\ loc' = [loc EXCEPT ![t].consulted = "miss"]
               /\ pc' = [pc EXCEPT ![t] = "api"]
    /\ UNCHANGED <<cache, cache_order, inserted, prev>>
    /\ UNCHANGED nodeVars
    /\ UNCHANGED <<poolVars, fnVars, agentVars>>

\* line 151: return _embedding_cache[cache_key] (KeyError when the key was
\* evicted since the membership test; it is outside the try block)
CacheRead(t) ==
    /\ pc[t] = "hit"
    /\ IF loc[t].key \in DOMAIN cache
          THEN loc' = [loc EXCEPT ![t].ret = cache[loc[t].key]]
          ELSE loc' = [loc EXCEPT ![t].raised = TRUE]
    /\ pc' = [pc EXCEPT ![t] = "ret"]
    /\ UNCHANGED <<cache, cache_order, inserted, prev>>
    /\ UNCHANGED nodeVars
    /\ UNCHANGED <<poolVars, fnVars, agentVars>>

\* lines 159-161: the provider answers
ProviderOk(t) ==
    /\ pc[t] = "api"
    /\ Len(inserted) + Storing < Prefill + MaxInserts
    /\ \E v \in ProviderVals :
          loc' = [loc EXCEPT ![t].embedding = Vector(v), ![t].prov = @ + 1]
    /\ pc' = [pc EXCEPT ![t] = "store"]
    /\ UNCHANGED <<cache, cache_order, inserted, prev>>
    /\ UNCHANGED nodeVars
    /\ UNCHANGED <<poolVars, fnVars, agentVars>>

ProviderFailsCachesZero(t) ==
    /\ pc[t] = "api"
    /\ loc' = [loc EXCEPT ![t].prov = @ + 1, ![t].failed = TRUE,
                          ![t].embedding = ZeroVector]
    /\ pc' = [pc EXCEPT ![t] = "store"]
    /\ UNCHANGED <<cache, cache_order, inserted, prev>>
    /\ UNCHANGED nodeVars
    /\ UNCHANGED <<poolVars, fnVars, agentVars>>

ProviderFailsRaises(t) ==
    /\ pc[t] = "api"
    /\ loc' = [loc EXCEPT ![t].prov = @ + 1, ![t].failed = TRUE, ![t].raised = TRUE]
    /\ pc' = [pc EXCEPT ![t] = "ret"]
    /\ UNCHANGED <<cache, cache_order, inserted, prev>>
    /\ UNCHANGED nodeVars
    /\ UNCHANGED <<poolVars, fnVars, agentVars>>

\* lines 183-186: the provider call raises; the zero vector is returned
ProviderFails(t) ==
    /\ pc[t] = "api"
    /\ loc' = [loc EXCEPT ![t].prov = @ + 1, ![t].failed = TRUE, ![t].ret = ZeroVector]
    /\ pc' = [pc EXCEPT ![t] = "ret"]
    /\ UNCHANGED <<cache, cache_order, inserted, prev>>
    /\ UNCHANGED nodeVars
    /\ UNCHANGED <<poolVars, fnVars, agentVars>>

\* line 169: _embedding_cache[cache_key] = embedding
CachePut(c, k, v) == [x \in DOMAIN c \cup {k} |-> IF x = k THEN v ELSE c[x]]

CacheStore(t) ==
    /\ pc[t] = "store"
    /\ cache' = CachePut(cache, loc[t].key, loc[t].embedding)
    /\ inserted' = Append(inserted, loc[t].key)
    /\ loc' = [loc EXCEPT ![t].puts = @ + 1]
    /\ pc' = [pc EXCEPT ![t] = "append"]
    /\ UNCHANGED <<cache_order, prev>>
    /\ UNCHANGED nodeVars
    /\ UNCHANGED <<poolVars, fnVars, agentVars>>

\* line 170: _cache_order.append(cache_key)
OrderAppend(t) ==
    /\ pc[t] = "append"
    /\ cache_order' = Append(cache_order, loc[t].key)
    /\ pc' = [pc EXCEPT ![t] = "check"]
    /\ UNCHANGED <<cache, loc, inserted, prev>>
    /\ UNCHANGED nodeVars
    /\ UNCHANGED <<poolVars, fnVars, agentVars>>

OverCapacityOffByOne(order) == Len(order) >= EMBEDDING_CACHE_SIZE

\* line 173: if len(_cache_order) > EMBEDDING_CACHE_SIZE
OverCapacity(order) == Len(order) > EMBEDDING_CACHE_SIZE

\* lines 173, 181: the capacity test; return embedding when not over capacity
CapacityCheck(t) ==
    /\ pc[t] = "check"
    /\ IF OverCapacity(cache_order)
          THEN /\ pc' = [pc EXCEPT ![t] = "pop"]
               /\ loc' = loc
          ELSE /\ pc' = [pc EXCEPT ![t] = "ret"]
               /\ loc' = [loc EXCEPT ![t].ret = loc[t].embedding]
    /\ UNCHANGED <<cache, cache_order, inserted, prev>>
    /\ UNCHANGED nodeVars
    /\ UNCHANGED <<poolVars, fnVars, agentVars>>

PopLast(order) ==
    [key |-> order[Len(order)], rest |-> SubSeq(order, 1, Len(order) - 1)]

\* _cache_order.pop(0): the key removed and the list left
PopFirst(order) == [key |-> Head(order), rest |-> Tail(order)]

\* line 174: oldest_key = _cache_order.pop(0) (IndexError on an empty list is
\* caught by the except of line 183)
OrderPop(t) ==
    /\ pc[t] = "pop"
    /\ IF cache_order # <<>>
          THEN /\ loc' = [loc EXCEPT ![t].oldest = PopFirst(cache_order).key]
               /\ cache_order' = PopFirst(cache_order).rest
               /\ pc' = [pc EXCEPT ![t] = "popmap"]
          ELSE /\ loc' = [loc EXCEPT ![t].failed = TRUE, ![t].ret = ZeroVector]
               /\ cache_order' = cache_order
               /\ pc' = [pc EXCEPT ![t] = "ret"]
    /\ UNCHANGED <<cache, inserted, prev>>
    /\ UNCHANGED nodeVars
    /\ UNCHANGED <<poolVars, fnVars, agentVars>>

\* line 175: _embedding_cache.pop(oldest_key, None)
CacheDrop(c, k) == [x \in DOMAIN c \ {k} |-> c[x]]

\* lines 175, 181: drop the oldest key from the map; return embedding
CachePop(t) ==
    /\ pc[t] = "popmap"
    /\ cache' = CacheDrop(cache, loc[t].oldest)
    /\ loc' = [loc EXCEPT ![t].ret = loc[t].embedding, ![t].evicted = TRUE]
    /\ pc' = [pc EXCEPT ![t] = "ret"]
    /\ UNCHANGED <<cache_order, inserted, prev>>
    /\ UNCHANGED nodeVars
    /\ UNCHANGED <<poolVars, fnVars, agentVars>>

\* the call has returned (or raised) to its caller
Returned(t) ==
    /\ pc[t] = "ret"
    /\ loc' = [loc EXCEPT ![t] = IdleLoc]
    /\ pc' = [pc EXCEPT ![t] = "idle"]
    /\ UNCHANGED <<cache, cache_order, inserted>>

EmbedReturn(t) ==
    /\ Returned(t)
    /\ UNCHANGED prev
    /\ UNCHANGED nodeVars
    /\ UNCHANGED <<poolVars, fnVars, agentVars>>

\* the same return, the caller remembering the call for its next one
EmbedReturnSeq(t) ==
    /\ Returned(t)
    /\ prev' = [key |-> loc[t].key, ret |-> loc[t].ret,
                failed |-> loc[t].failed \/ loc[t].raised, prov |-> loc[t].prov]
    /\ UNCHANGED nodeVars
    /\ UNCHANGED <<poolVars, fnVars, agentVars>>

EmbedStep(t) ==
    \/ CacheLookup(t)
    \/ CacheRead(t)
    \/ ProviderOk(t)
    \/ ProviderFails(t)
    \/ CacheStore(t)
    \/ OrderAppend(t)
    \/ CapacityCheck(t)
    \/ OrderPop(t)
    \/ CachePop(t)

(***************************************************************************)
(* The connection pool: _get_connection_pool and pool.connection()         *)
(***************************************************************************)
\* requests that reach the store query at the same time
MaxRequests == 4

PoolRequests == 1 .. MaxRequests

\* ConnectionPool(max_size=3)
max_size == 3

NoPool == 0

\* initial_state of run_pipeline (new_pipeline.py lines 259-282), before
\* user_input and user_action are filled in
NoSermonState ==
    [user_input |-> <<"None">>, user_action |-> "none", next |-> "none",
     router |-> [set |-> FALSE, use_rag |-> FALSE],
     rag_snippets |-> <<>>,
     retrieval |-> [set |-> FALSE, used_rag |-> FALSE, error |-> FALSE, count |-> 0],
     answer |-> FALSE,
     embed_failed |-> FALSE, store_failed |-> FALSE]

\* ConversationSession.__init__ (new_pipeline.py lines 152-158)
NewSession(max_history) ==
    [max_history |-> max_history, history |-> <<>>, turn_count |-> 0]

DefaultMaxHistory == 10

\* no run of the graph, and a session nobody has used
InitAgent ==
    /\ gnode = "idle"
    /\ sermon_state = NoSermonState
    /\ executed = <<>>
    /\ session = NewSession(DefaultMaxHistory)
    /\ since_clear = <<>>

InitPool ==
    /\ connection_pool = NoPool
    /\ pools = <<>>
    /\ ppc = [r \in PoolRequests |-> "idle"]
    /\ ploc = [r \in PoolRequests |-> NoPool]

InitFn ==
    /\ fn_args = <<>>
    /\ fn_result = <<>>

\* connections checked out of every pool instance
InUse == IF pools = <<>> THEN 0
         ELSE LET RECURSIVE Sum(_)
                  Sum(i) == IF i = 0 THEN 0 ELSE pools[i] + Sum(i - 1)
              IN  Sum(Len(pools))

\* line 105: if _connection_pool is None
PoolIsNone(r) ==
    /\ ppc[r] = "idle"
    /\ ppc' = [ppc EXCEPT ![r] = IF connection_pool = NoPool THEN "create" ELSE "return"]
    /\ UNCHANGED <<connection_pool, pools, ploc>>
    /\ UNCHANGED <<cacheVars, nodeVars, fnVars, agentVars>>

\* lines 106-114: _connection_pool = ConnectionPool(...)
PoolCreate(r) ==
    /\ ppc[r] = "create"
    /\ pools' = Append(pools, 0)
    /\ connection_pool' = Len(pools) + 1
    /\ ppc' = [ppc EXCEPT ![r] = "return"]
    /\ UNCHANGED ploc
    /\ UNCHANGED <<cacheVars, nodeVars, fnVars, agentVars>>

\* lines 118, 617: pool = _get_connection_pool()
PoolReturn(r) ==
    /\ ppc[r] = "return"
    /\ ploc' = [ploc EXCEPT ![r] = connection_pool]
    /\ ppc' = [ppc EXCEPT ![r] = "acquire"]
    /\ UNCHANGED <<connection_pool, pools>>
    /\ UNCHANGED <<cacheVars, nodeVars, fnVars, agentVars>>

\* line 618: with pool.connection() as conn, a connection being free or the
\* pool still under max_size
PoolAcquire(r) ==
    /\ ppc[r] = "acquire"
    /\ pools[ploc[r]] < max_size
    /\ pools' = [pools EXCEPT ![ploc[r]] = @ + 1]
    /\ ppc' = [ppc EXCEPT ![r] = "using"]
    /\ UNCHANGED <<connection_pool, ploc>>
    /\ UNCHANGED <<cacheVars, nodeVars, fnVars, agentVars>>

\* line 618: no connection of the pool within timeout=30: PoolTimeout is
\* raised and the request has no connection
PoolAcquireTimeout(r) ==
    /\ ppc[r] = "acquire"
    /\ pools[ploc[r]] >= max_size
    /\ ppc' = [ppc EXCEPT ![r] = "idle"]
    /\ ploc' = [ploc EXCEPT ![r] = NoPool]
    /\ UNCHANGED <<connection_pool, pools>>
    /\ UNCHANGED <<cacheVars, nodeVars, fnVars, agentVars>>

\* lines 619-621: the query has run; leaving the with block gives the
\* connection back
PoolRelease(r) ==
    /\ ppc[r] = "using"
    /\ pools' = [pools EXCEPT ![ploc[r]] = @ - 1]
    /\ ppc' = [ppc EXCEPT ![r] = "idle"]
    /\ ploc' = [ploc EXCEPT ![r] = NoPool]
    /\ UNCHANGED connection_pool
    /\ UNCHANGED <<cacheVars, nodeVars, fnVars, agentVars>>

(***************************************************************************)
(* Retrieval node: configuration                                           *)
(***************************************************************************)
\* similarities and scores are fixed-point numbers, Milli to the unit
Milli == 10 * 100

\* None, or a key that is missing from the dict
Null == -(Milli * Milli)

RAW_TOP_K == 8

CONTEXT_TOP_K == 5

SIMILARITY_FLOOR == (3 * Milli) \div 10

MIN_CANDIDATES_AFTER_FLOOR == 5

BM25_WEIGHT == (2 * Milli) \div 10

LAYER_WEIGHTS == [L0 |-> 3, L1 |-> 2, L2 |-> 1]

NodeThread == 1

(***************************************************************************)
(* Documents of the store, as the tokens of title + requirements +         *)
(* benefits                                                                *)
(***************************************************************************)
DocTokens(id) ==
    CASE id = 1 -> <<"diabetes", "care", "subsidy">>
      [] id = 2 -> <<"senior", "housing">>
      [] id = 3 -> <<"dialysis", "subsidy", "dialysis">>
      [] id = 4 -> <<>>
      [] id = 5 -> <<"diabetes", "e11", "diabetes", "care">>
      [] id = 6 -> <<"housing", "subsidy">>
      [] id = 7 -> <<"senior", "care">>
      [] id = 8 -> <<"e11">>
      [] OTHER -> <<>>

\* the doc_id of the appended "system:conversation_persist" snippet
SystemDocId == 0

\* t.lower() on the tokens the triples carry
Lower(tok) == IF tok = "E11" THEN "e11" ELSE tok

\* a triple, as the tokens of its object and of its code
Triple(object, code) == [object |-> object, code |-> code]

NoLayer == [present |-> FALSE, triples |-> <<>>]

Layer(triples) == [present |-> TRUE, triples |-> triples]

\* collection_layer_L0 / L1 / L2 of the requests
LayerSets ==
    { [L0 |-> NoLayer, L1 |-> NoLayer, L2 |-> NoLayer],
      [L0 |-> Layer(<<Triple(<<"diabetes">>, <<"E11">>)>>),
       L1 |-> Layer(<<Triple(<<"dialysis">>, <<>>)>>),
       L2 |-> Layer(<<Triple(<<"diabetes">>, <<>>), Triple(<<>>, <<>>)>>)],
      [L0 |-> Layer(<<>>),
       L1 |-> NoLayer,
       L2 |-> Layer(<<Triple(<<"pension">>, <<>>)>>)] }

(***************************************************************************)
(* BM25 terms from the layers                                              *)
(***************************************************************************)
RECURSIVE Repeat(_, _)
Repeat(x, n) == IF n <= 0 THEN <<>> ELSE <<x>> \o Repeat(x, n - 1)

Max(a, b) == IF a >= b THEN a ELSE b

Min(a, b) == IF a <= b THEN a ELSE b

\* lines 298-303: every token max(weight, 1) times
RECURSIVE RepeatEach(_, _)
RepeatEach(toks, weight) ==
    IF toks = <<>> THEN <<>>
    ELSE Repeat(Lower(Head(toks)), Max(weight, 1)) \o RepeatEach(Tail(toks), weight)

\* lines 287-303: the terms of the triples of one layer
RECURSIVE TripleTerms(_, _)
TripleTerms(triples, weight) ==
    IF triples = <<>> THEN <<>>
    ELSE RepeatEach(Head(triples).object \o Head(triples).code, weight)
            \o TripleTerms(Tail(triples), weight)

AddLayerTermsUnweighted(layer, weight) ==
    IF ~layer.present THEN <<>> ELSE TripleTerms(layer.triples, 1)

\* _add_layer_terms
AddLayerTerms(layer, weight) ==
    IF ~layer.present THEN <<>> ELSE TripleTerms(layer.triples, weight)

\* _build_bm25_terms_from_layers
BuildBm25TermsFromLayers(L0, L1, L2) ==
    AddLayerTerms(L0, LAYER_WEIGHTS.L0)
        \o AddLayerTerms(L1, LAYER_WEIGHTS.L1)
        \o AddLayerTerms(L2, LAYER_WEIGHTS.L2)

(***************************************************************************)
(* BM25 re-ranking                                                         *)
(***************************************************************************)
\* round(ln(k) * Milli) for k = 1 .. 99
LnTable ==
    <<0, 693, 1099, 1386, 1609, 1792, 1946, 2079, 2197, 2303, 2398, 2485,
      2565, 2639, 2708, 2773, 2833, 2890, 2944, 2996, 3045, 3091, 3135,
      3178, 3219, 3258, 3296, 3332, 3367, 3401, 3434, 3466, 3497, 3526,
      3555, 3584, 3611, 3638, 3664, 3689, 3714, 3738, 3761, 3784, 3807,
      3829, 3850, 3871, 3892, 3912, 3932, 3951, 3970, 3989, 4007, 4025,
      4043, 4060, 4078, 4094, 4111, 4127, 4143, 4159, 4174, 4190, 4205,
      4220, 4234, 4248, 4263, 4277, 4290, 4304, 4317, 4331, 4344, 4357,
      4369, 4382, 4394, 4407, 4419, 4431, 4443, 4454, 4466, 4477, 4489,
      4500, 4511, 4522, 4533, 4543, 4554, 4564, 4575, 4585, 4595>>

RECURSIVE SumSeq(_)
SumSeq(s) == IF s = <<>> THEN 0 ELSE Head(s) + SumSeq(Tail(s))

Count(s, x) == Cardinality({i \in 1 .. Len(s) : s[i] = x})

\* line 352: dl = len(tokens) or 1
DocLen(doc) == IF Len(DocTokens(doc.doc_id)) = 0 THEN 1 ELSE Len(DocTokens(doc.doc_id))

\* lines 355-359: the count is raised once per occurrence of the term in
\* query_terms, for every document that holds the term
TermDocFreq(docs, terms, term) ==
    Count(terms, term)
        * Cardinality({i \in 1 .. Len(docs) : term \in Range(DocTokens(docs[i].doc_id))})

\* line 382: math.log((N - n_qi + 0.5) / (n_qi + 0.5) + 1), which is
\* ln((2N + 2) / (2 n_qi + 1))
Idf(N, n_qi) == LnTable[2 * N + 2] - LnTable[2 * n_qi + 1]

\* lines 383-387 for one occurrence of a term in query_terms, with
\* avgdl = sumdl / N (line 362), k1 = 1.5 and b = 0.75:
\* idf * freq * 2.5 / (freq + 0.375 + 1.125 * dl * N / sumdl), the fraction
\* expanded by 8 * sumdl
TermScore(docs, terms, doc, term) ==
    LET N == Len(docs)
        sumdl == SumSeq([i \in 1 .. N |-> DocLen(docs[i])])
        n_qi == TermDocFreq(docs, terms, term)
        freq == Count(DocTokens(doc.doc_id), term)
    IN  IF n_qi = 0 \/ freq = 0 THEN 0
        ELSE (Idf(N, n_qi) * (20 * freq * sumdl))
                \div (8 * freq * sumdl + 3 * sumdl + 9 * DocLen(doc) * N)

\* lines 376-388: the BM25 score of one document
Bm25Score(docs, terms, doc) ==
    SumSeq([j \in 1 .. Len(terms) |-> TermScore(docs, terms, doc, terms[j])])

RECURSIVE MaxSeq(_)
MaxSeq(s) == IF Len(s) = 1 THEN s[1] ELSE Max(Head(s), MaxSeq(Tail(s)))

\* line 397: float(sim_val) if sim_val is not None else 0.0
SimOrZero(doc) == IF doc.similarity = Null THEN 0 ELSE doc.similarity

HybridSimilarityOnly(sim, bm25, max_bm25) == sim

\* lines 401-402: the hybrid score
Hybrid(sim, bm25, max_bm25) ==
    LET bm25_norm == IF max_bm25 > 0 THEN (bm25 * Milli) \div max_bm25 ELSE 0
    IN  ((Milli - BM25_WEIGHT) * sim + BM25_WEIGHT * bm25_norm) \div Milli

\* _apply_bm25_rerank
ApplyBm25Rerank(docs, terms) ==
    IF docs = <<>> \/ terms = <<>> THEN docs
    ELSE LET scores == [i \in 1 .. Len(docs) |-> Bm25Score(docs, terms, docs[i])]
             max_bm25 == MaxSeq(scores)
         IN  [i \in 1 .. Len(docs) |->
                 [docs[i] EXCEPT !.bm25_score = scores[i],
                                 !.score = Hybrid(SimOrZero(docs[i]), scores[i], max_bm25)]]

(***************************************************************************)
(* Retrieval node: the requests                                            *)
(***************************************************************************)
\* user_input: the body it has as a text (0: blank), the keywords
\* extract_keywords finds in it, whether it holds one of the words of
\* save_keywords (line 883) or of _decide_use_rag (line 713)
Queries ==
    { [body |-> 0, kws |-> <<>>, save |-> FALSE, ragword |-> FALSE],
      [body |-> 1, kws |-> <<"diabetes", "eligibility">>, save |-> FALSE, ragword |-> TRUE],
      [body |-> Prefill + 1, kws |-> <<>>, save |-> FALSE, ragword |-> TRUE],
      [body |-> Prefill + 3, kws |-> <<"save", "diabetes">>, save |-> TRUE, ragword |-> FALSE] }

\* the text _build_synthetic_query makes up
SyntheticBody == Prefill + 2

\* merged_profile: None, {} or a profile; a profile comes with its
\* profile_summary_text and with the documents its eligibility rules exclude
NoProfile == [present |-> FALSE, empty |-> TRUE, summary |-> FALSE, excluded |-> {}]

Profiles ==
    { NoProfile,
      [present |-> TRUE, empty |-> TRUE, summary |-> FALSE, excluded |-> {}],
      [present |-> TRUE, empty |-> FALSE, summary |-> TRUE, excluded |-> {2, 5}],
      [present |-> TRUE, empty |-> FALSE, summary |-> TRUE, excluded |-> 1 .. RAW_TOP_K] }

\* state["router"]: missing or {}, use_rag set, or without a use_rag key
Routers == {"none", "rag", "norag", "nokey"}

\* every request without a router entry; with one, the requests without
\* profile that do not end the session
Requests ==
    { r \in [user_input : Queries, router : Routers, merged_profile : Profiles,
             layers : LayerSets, end_session : BOOLEAN] :
        r.router = "none" \/ (r.merged_profile = NoProfile /\ ~r.end_session) }

NoRequest ==
    [user_input |-> [body |-> 0, kws |-> <<>>, save |-> FALSE, ragword |-> FALSE],
     router |-> "none", merged_profile |-> NoProfile,
     layers |-> [L0 |-> NoLayer, L1 |-> NoLayer, L2 |-> NoLayer],
     end_session |-> FALSE]

NoHist ==
    [outcome |-> "none", raw_n |-> 0, qvec |-> NoVector, embed_failed |-> FALSE,
     filter_invoked |-> FALSE, filtered |-> <<>>, pre_floor |-> <<>>,
     post_floor |-> <<>>]

NoOutput == [used_rag |-> FALSE, rag_snippets |-> <<>>, keywords |-> <<>>]

InitNode ==
    /\ npc = "idle"
    /\ req = NoRequest
    /\ rag_docs = <<>>
    /\ bm25_terms = <<>>
    /\ hist = NoHist
    /\ out = NoOutput

\* the cache cold, or warm with Prefill keys
Init ==
    /\ \E n \in {0, Prefill} : CacheAfter(n)
    /\ InitThreads
    /\ InitNode
    /\ InitPool
    /\ InitAgent
    /\ InitFn

\* the cache cold, or full
InitColdOrFull ==
    /\ \E n \in {0, EMBEDDING_CACHE_SIZE} : CacheAfter(n)
    /\ InitThreads
    /\ InitNode
    /\ InitPool
    /\ InitAgent
    /\ InitFn

(***************************************************************************)
(* Texts as sequences of characters; extract_keywords                      *)
(***************************************************************************)
\* A character is a one-letter string, or the romanised name of a Hangul
\* syllable ("dang" "nyo" is the two-character word for diabetes); "middot"
\* is the interpunct of the trailing phrase.
Whitespace == {" ", "tab"}

Punctuation == {",", ":", "?", "middot"}

\* the class [가-힣A-Za-z0-9] of line 206
IsWordChar(c) == c \notin Whitespace \cup Punctuation

\* None, where a text is optional
NoneText == <<"None">>

\* text or ""
OrEmpty(text) == IF text = NoneText THEN <<>> ELSE text

\* str.strip()
RECURSIVE LStrip(_)
LStrip(text) ==
    IF text # <<>> /\ Head(text) \in Whitespace THEN LStrip(Tail(text)) ELSE text

RECURSIVE RStrip(_)
RStrip(text) ==
    IF text # <<>> /\ text[Len(text)] \in Whitespace
    THEN RStrip(SubSeq(text, 1, Len(text) - 1))
    ELSE text

StripText(text) == RStrip(LStrip(text))

\* str.lower()
LowerChar(c) == IF c = "H" THEN "h" ELSE c

LowerText(text) == [i \in 1 .. Len(text) |-> LowerChar(text[i])]

\* re.findall(r"[가-힣A-Za-z0-9]+", text): the maximal runs of word
\* characters, cur being the run at hand
RECURSIVE FindAll(_, _)
FindAll(text, cur) ==
    IF text = <<>> THEN (IF cur = <<>> THEN <<>> ELSE <<cur>>)
    ELSE IF IsWordChar(Head(text)) THEN FindAll(Tail(text), Append(cur, Head(text)))
    ELSE (IF cur = <<>> THEN <<>> ELSE <<cur>>) \o FindAll(Tail(text), <<>>)

\* lines 207-233: stop
StopWords ==
    { <<"geu", "ri", "go">>, <<"ha", "ji", "man">>, <<"geun", "de">>,
      <<"hok", "si">>, <<"man", "yak">>, <<"bad", "eul">>, <<"ga", "neung">>,
      <<"mun", "ui">>, <<"sin", "cheong">>, <<"yeo", "bu">>,
      <<"iss", "na", "yo">>, <<"hae", "dang">>, <<"sa", "yong", "ja">>,
      <<"sang", "tae">>, <<"hyeon", "jae">>, <<"jil", "mun">>,
      <<"hye", "taek">>, <<"ji", "won">>, <<"jeong", "chaek">>,
      <<"je", "ga">>, <<"na", "neun">>, <<"jeo", "neun">>, <<"nae", "ga">>,
      <<"gung", "geum">>, <<"gung", "geum", "hae", "yo">> }

IsKeywordIfHangul(t) ==
    Len(t) >= 2 /\ t \notin StopWords /\ \A i \in DOMAIN t : Len(t[i]) > 1

\* line 238: len(t) >= 2 and t not in stop
IsKeyword(t) == Len(t) >= 2 /\ t \notin StopWords

\* lines 236-243: the loop over the tokens, kws being out so far
RECURSIVE KeywordLoop(_, _, _)
KeywordLoop(tokens, kws, max_k) ==
    IF tokens = <<>> THEN kws
    ELSE LET t == LowerText(Head(tokens))
         IN  IF IsKeyword(t) /\ t \notin Range(kws)
             THEN IF Len(kws) + 1 >= max_k THEN Append(kws, t)
                  ELSE KeywordLoop(Tail(tokens), Append(kws, t), max_k)
             ELSE KeywordLoop(Tail(tokens), kws, max_k)

\* extract_keywords
ExtractKeywords(text, max_k) ==
    IF OrEmpty(text) = <<>> THEN <<>>
    ELSE KeywordLoop(FindAll(text, <<>>), <<>>, max_k)

\* sep.join(parts)
RECURSIVE Join(_, _)
Join(parts, sep) ==
    IF parts = <<>> THEN <<>>
    ELSE IF Len(parts) = 1 THEN parts[1]
    ELSE parts[1] \o sep \o Join(Tail(parts), sep)

(***************************************************************************)
(* Retrieval node: the stages as functions                                 *)
(***************************************************************************)
\* _decide_use_rag
DecideUseRag(router, query) ==
    IF router = "none" THEN TRUE
    ELSE IF router \in {"rag", "norag"} THEN router = "rag"
    ELSE query.ragword

\* _collect_layer_objects: the non-empty object texts of a layer
CollectLayerObjects(layer) ==
    IF ~layer.present THEN <<>>
    ELSE SelectSeq([i \in 1 .. Len(layer.triples) |->
                       StripText(OrEmpty(layer.triples[i].object))],
                   LAMBDA o : o # <<>>)

\* _build_synthetic_query, as the body of the text it returns
BuildSyntheticQuery(r) ==
    IF r.user_input.kws # <<>> THEN r.user_input.body
    ELSE IF r.merged_profile.summary
            \/ CollectLayerObjects(r.layers.L0) \o CollectLayerObjects(r.layers.L1) # <<>>
         THEN SyntheticBody
         ELSE r.user_input.body

\* "최근 상황: "
RecentLabel == <<"choe", "geun", " ", "sang", "hwang", ":", " ">>

\* "관련 의료·복지 지원 정책"
TrailingPhrase ==
    <<"gwan", "ryeon", " ", "ui", "ryo", "middot", "bok", "ji", " ", "ji", "won",
      " ", "jeong", "chaek">>

FirstObjects(objs, uniq_objs) ==
    SubSeq(objs, 1, Min(Len(objs), 5))

\* lines 501-508: the first occurrences, the loop left at five of them
RECURSIVE UniqueObjects(_, _)
UniqueObjects(objs, uniq_objs) ==
    IF objs = <<>> THEN uniq_objs
    ELSE LET next == IF Head(objs) \in Range(uniq_objs) THEN uniq_objs
                     ELSE Append(uniq_objs, Head(objs))
         IN  IF Len(next) >= 5 THEN next ELSE UniqueObjects(Tail(objs), next)

\* lines 491-517: pieces
SyntheticPieces(profile_summary_text, collection_L0, collection_L1) ==
    LET summary == IF OrEmpty(profile_summary_text) # <<>>
                   THEN <<StripText(profile_summary_text)>> ELSE <<>>
        objs == CollectLayerObjects(collection_L0) \o CollectLayerObjects(collection_L1)
        uniq_objs == UniqueObjects(objs, <<>>)
    IN  IF uniq_objs # <<>>
        THEN Append(summary, RecentLabel \o Join(uniq_objs, <<",", " ">>))
        ELSE summary

BuildSyntheticQueryTextPiecesFirst(raw_query, profile_summary_text, collection_L0, collection_L1) ==
    LET pieces == SyntheticPieces(profile_summary_text, collection_L0, collection_L1)
    IN  IF pieces # <<>> THEN Join(Append(pieces, TrailingPhrase), <<" ">>)
        ELSE StripText(OrEmpty(raw_query))

\* _build_synthetic_query on texts
BuildSyntheticQueryText(raw_query, profile_summary_text, collection_L0, collection_L1) ==
    LET raw == StripText(OrEmpty(raw_query))
        core_kws == ExtractKeywords(raw, 4)
        pieces == SyntheticPieces(profile_summary_text, collection_L0, collection_L1)
    IN  IF core_kws # <<>> THEN raw
        ELSE IF pieces = <<>> THEN raw
        ELSE Join(Append(pieces, TrailingPhrase), <<" ">>)

\* tuple comparison of two keys (flag, value)
KeyLess(a, b) == a[1] < b[1] \/ (a[1] = b[1] /\ a[2] < b[2])

\* list.sort is stable: an entry [key, item] goes before the first entry
\* whose key is greater
RECURSIVE InsertAscending(_, _)
InsertAscending(s, x) ==
    IF s = <<>> THEN <<x>>
    ELSE IF KeyLess(x.key, Head(s).key) THEN <<x>> \o s
    ELSE <<Head(s)>> \o InsertAscending(Tail(s), x)

RECURSIVE SortAscending(_)
SortAscending(s) ==
    IF s = <<>> THEN <<>>
    ELSE InsertAscending(SortAscending(SubSeq(s, 1, Len(s) - 1)), s[Len(s)])

\* with reverse=True (equal keys keep their order): before the first entry
\* whose key is less
RECURSIVE InsertDescending(_, _)
InsertDescending(s, x) ==
    IF s = <<>> THEN <<x>>
    ELSE IF KeyLess(Head(s).key, x.key) THEN <<x>> \o s
    ELSE <<Head(s)>> \o InsertDescending(Tail(s), x)

RECURSIVE SortDescending(_)
SortDescending(s) ==
    IF s = <<>> THEN <<>>
    ELSE InsertDescending(SortDescending(SubSeq(s, 1, Len(s) - 1)), s[Len(s)])

Items(s) == [i \in 1 .. Len(s) |-> s[i].item]

\* lines 663-665: key (similarity is not None, similarity), reverse=True
SimilarityKey(d) ==
    IF d.similarity # Null THEN <<1, d.similarity>> ELSE <<0, 0>>

SortBySimilarity(rows) ==
    Items(SortDescending([i \in 1 .. Len(rows) |->
                             [key |-> SimilarityKey(rows[i]), item |-> rows[i]]]))

\* lines 634-687: the rows as snippets, score set to the similarity
RowsToSnippets(rows) ==
    LET results == SortBySimilarity(rows)
    IN  [i \in 1 .. Len(results) |->
            [doc_id |-> results[i].doc_id, similarity |-> results[i].similarity,
             score |-> results[i].similarity, bm25_score |-> Null]]

\* what the store answers to ORDER BY distance LIMIT n: n documents, above
\* the floor, at the floor, under the floor, then those without similarity
StoreRows(above, at, under, nulls) ==
    LET sims == Repeat((9 * Milli) \div 10, above) \o Repeat(SIMILARITY_FLOOR, at)
                    \o Repeat((2 * Milli) \div 10, under) \o Repeat(Null, nulls)
    IN  [i \in 1 .. Len(sims) |-> [doc_id |-> i, similarity |-> sims[i]]]

\* filter_candidates_by_profile
FilterCandidatesByProfile(docs, profile) ==
    SelectSeq(docs, LAMBDA d : d.doc_id \notin profile.excluded)

ProfileFilterInvokedUnlessNone(docs, profile) == profile.present /\ docs # <<>>

\* line 818: if merged_profile and rag_docs (None and {} are both falsy)
ProfileFilterInvoked(docs, profile) ==
    profile.present /\ ~profile.empty /\ docs # <<>>

ProfileFilterNever(docs, profile) == docs

\* lines 818-820
ProfileFilter(docs, profile) ==
    IF ProfileFilterInvoked(docs, profile)
    THEN FilterCandidatesByProfile(docs, profile)
    ELSE docs

PassesFloorStrictly(d) == SimOrZero(d) > SIMILARITY_FLOOR

\* line 839: (_get_sim(d) or 0.0) >= SIMILARITY_FLOOR
PassesFloor(d) == SimOrZero(d) >= SIMILARITY_FLOOR

FloorAlwaysApplies(filtered_by_sim) == TRUE

\* line 841: len(filtered_by_sim) >= MIN_CANDIDATES_AFTER_FLOOR
FloorApplies(filtered_by_sim) == Len(filtered_by_sim) >= MIN_CANDIDATES_AFTER_FLOOR

\* lines 836-846
SimilarityFloor(docs) ==
    LET sims == SelectSeq(docs, LAMBDA d : d.similarity # Null)
        filtered_by_sim == SelectSeq(docs, PassesFloor)
    IN  IF sims # <<>> /\ FloorApplies(filtered_by_sim) THEN filtered_by_sim ELSE docs

ScoreKeyNullsFirst(d) == IF d.score = Null THEN <<0, 0>> ELSE <<1, -d.score>>

\* lines 866-871: key (score is None, -(score or 0.0))
ScoreKey(d) == IF d.score = Null THEN <<1, 0>> ELSE <<0, -d.score>>

SortByScore(docs) ==
    Items(SortAscending([i \in 1 .. Len(docs) |->
                            [key |-> ScoreKey(docs[i]), item |-> docs[i]]]))

NoTruncation(docs) == docs

\* lines 874-879
TruncateToContext(docs) ==
    IF Len(docs) > CONTEXT_TOP_K THEN SubSeq(docs, 1, CONTEXT_TOP_K) ELSE docs

\* lines 886-893: the appended "system:conversation_persist" snippet
PersistSnippet ==
    [doc_id |-> SystemDocId, similarity |-> Null, score |-> Milli, bm25_score |-> Null]

\* lines 882-893
WithPersistSnippet(docs, r) ==
    IF r.end_session \/ r.user_input.save THEN Append(docs, PersistSnippet) ELSE docs

\* lines 899-906: first occurrences, at most limit of them
RECURSIVE Dedupe(_, _, _)
Dedupe(s, seen, limit) ==
    IF s = <<>> \/ limit = 0 THEN <<>>
    ELSE IF Head(s) \in seen THEN Dedupe(Tail(s), seen, limit)
    ELSE <<Head(s)>> \o Dedupe(Tail(s), seen \cup {Head(s)}, limit - 1)

\* lines 881-919: what the node hands back
FinalOutput(r, docs, terms) ==
    [used_rag |-> DecideUseRag(r.router, r.user_input),
     rag_snippets |-> WithPersistSnippet(docs, r),
     keywords |-> Dedupe(r.user_input.kws \o terms, {}, 12)]

(***************************************************************************)
(* Retrieval node: one action per stage of a request                       *)
(***************************************************************************)
\* lines 742-802 and 537-566: read the state, decide on RAG, build the
\* embedding query and enter _embed_text with it
NodeStart(r) ==
    /\ npc = "idle"
    /\ req' = r
    /\ IF DecideUseRag(r.router, r.user_input) /\ r.user_input.body # 0
              /\ BuildSyntheticQuery(r) # 0
          THEN /\ EnterCall(NodeThread, [body |-> BuildSyntheticQuery(r), ws |-> FALSE])
               /\ npc' = "embedding"
               /\ hist' = hist
          ELSE /\ UNCHANGED cacheVars
               /\ npc' = "searched"
               /\ hist' = [hist EXCEPT !.outcome = "skipped"]
    /\ UNCHANGED <<rag_docs, bm25_terms, out>>
    /\ UNCHANGED <<poolVars, fnVars, agentVars>>

\* lines 565-574: _embed_text has returned the query vector (or has raised:
\* return [], debug_keywords)
NodeEmbedded ==
    /\ npc = "embedding"
    /\ Returned(NodeThread)
    /\ IF loc[NodeThread].raised
          THEN /\ npc' = "searched"
               /\ hist' = [hist EXCEPT !.outcome = "embed_raised",
                                       !.embed_failed = loc[NodeThread].failed]
          ELSE /\ npc' = "query"
               /\ hist' = [hist EXCEPT !.qvec = loc[NodeThread].ret,
                                       !.embed_failed = loc[NodeThread].failed]
    /\ UNCHANGED <<prev, req, rag_docs, bm25_terms, out>>
    /\ UNCHANGED <<poolVars, fnVars, agentVars>>

\* lines 615-693: the store answers with at most top_k rows
StoreQuery ==
    /\ npc = "query"
    /\ \E above \in 0 .. RAW_TOP_K : \E at \in 0 .. 1 : \E nulls \in 0 .. 1 :
       \E under \in 0 .. RAW_TOP_K :
          /\ above + at + under + nulls <= RAW_TOP_K
          /\ rag_docs' = RowsToSnippets(StoreRows(above, at, under, nulls))
          /\ hist' = [hist EXCEPT !.outcome = "rows",
                                  !.raw_n = above + at + under + nulls]
    /\ npc' = "searched"
    /\ UNCHANGED <<req, bm25_terms, out>>
    /\ UNCHANGED cacheVars
    /\ UNCHANGED <<poolVars, fnVars, agentVars>>

\* lines 617-621 raise (no connection within the pool's timeout, or the
\* query fails); lines 810-813 catch it
StoreFails ==
    /\ npc = "query"
    /\ \E kind \in {"pool_exhausted", "query_error"} :
          hist' = [hist EXCEPT !.outcome = kind]
    /\ rag_docs' = <<>>
    /\ npc' = "searched"
    /\ UNCHANGED <<req, bm25_terms, out>>
    /\ UNCHANGED cacheVars
    /\ UNCHANGED <<poolVars, fnVars, agentVars>>

\* lines 817-822
ProfileFilterStage ==
    /\ npc = "searched"
    /\ rag_docs' = ProfileFilter(rag_docs, req.merged_profile)
    /\ hist' = [hist EXCEPT !.filtered = ProfileFilter(rag_docs, req.merged_profile),
                            !.filter_invoked =
                                ProfileFilterInvoked(rag_docs, req.merged_profile)]
    /\ npc' = "filtered"
    /\ UNCHANGED <<req, bm25_terms, out>>
    /\ UNCHANGED cacheVars
    /\ UNCHANGED <<poolVars, fnVars, agentVars>>

FloorStageAfterFuse ==
    /\ npc = "filtered"
    /\ bm25_terms' = BuildBm25TermsFromLayers(req.layers.L0, req.layers.L1, req.layers.L2)
    /\ rag_docs' = IF rag_docs = <<>> THEN rag_docs
                   ELSE IF bm25_terms' # <<>>
                        THEN SimilarityFloor(ApplyBm25Rerank(rag_docs, bm25_terms'))
                        ELSE SimilarityFloor(rag_docs)
    /\ hist' = [hist EXCEPT !.pre_floor = rag_docs, !.post_floor = rag_docs']
    /\ npc' = "floored"
    /\ UNCHANGED <<req, out>>
    /\ UNCHANGED cacheVars
    /\ UNCHANGED <<poolVars, fnVars, agentVars>>

\* lines 826-846
FloorStage ==
    /\ npc = "filtered"
    /\ rag_docs' = IF rag_docs # <<>> THEN SimilarityFloor(rag_docs) ELSE rag_docs
    /\ hist' = [hist EXCEPT !.pre_floor = rag_docs,
                            !.post_floor = IF rag_docs # <<>> THEN SimilarityFloor(rag_docs)
                                           ELSE rag_docs]
    /\ npc' = "floored"
    /\ UNCHANGED <<req, bm25_terms, out>>
    /\ UNCHANGED cacheVars
    /\ UNCHANGED <<poolVars, fnVars, agentVars>>

\* lines 848-856
RerankStage ==
    /\ npc = "floored"
    /\ bm25_terms' = IF rag_docs # <<>>
                     THEN BuildBm25TermsFromLayers(req.layers.L0, req.layers.L1, req.layers.L2)
                     ELSE bm25_terms
    /\ rag_docs' = IF rag_docs # <<>> /\ bm25_terms' # <<>>
                   THEN ApplyBm25Rerank(rag_docs, bm25_terms')
                   ELSE rag_docs
    /\ npc' = "reranked"
    /\ UNCHANGED <<req, hist, out>>
    /\ UNCHANGED cacheVars
    /\ UNCHANGED <<poolVars, fnVars, agentVars>>

\* lines 858-879
SortTruncateStage ==
    /\ npc = "reranked"
    /\ rag_docs' = IF rag_docs # <<>> THEN TruncateToContext(SortByScore(rag_docs))
                   ELSE rag_docs
    /\ npc' = "ranked"
    /\ UNCHANGED <<req, bm25_terms, hist, out>>
    /\ UNCHANGED cacheVars
    /\ UNCHANGED <<poolVars, fnVars, agentVars>>

\* lines 881-929
NodeFinish ==
    /\ npc = "ranked"
    /\ rag_docs' = WithPersistSnippet(rag_docs, req)
    /\ out' = FinalOutput(req, rag_docs, bm25_terms)
    /\ npc' = "done"
    /\ UNCHANGED <<req, bm25_terms, hist>>
    /\ UNCHANGED cacheVars
    /\ UNCHANGED <<poolVars, fnVars, agentVars>>

NextNode ==
    \/ \E r \in Requests : NodeStart(r)
    \/ EmbedStep(NodeThread)
    \/ NodeEmbedded
    \/ StoreQuery
    \/ StoreFails
    \/ ProfileFilterStage
    \/ FloorStage
    \/ RerankStage
    \/ SortTruncateStage
    \/ NodeFinish

SpecNode == InitColdOrFull /\ [][NextNode]_vars

\* concurrent requests at the store query, the cache cold
InitCold ==
    /\ CacheAfter(0)
    /\ InitThreads
    /\ InitNode
    /\ InitPool
    /\ InitAgent
    /\ InitFn

NextPool ==
    \E r \in PoolRequests :
        \/ PoolIsNone(r)
        \/ PoolCreate(r)
        \/ PoolReturn(r)
        \/ PoolAcquire(r)
        \/ PoolAcquireTimeout(r)
        \/ PoolRelease(r)

SpecPool == InitCold /\ [][NextPool]_vars

(***************************************************************************)
(* Calls of _build_synthetic_query                                         *)
(***************************************************************************)
\* "당뇨", "고혈압", "암", "치매", "천식", "골절"
Diabetes == <<"dang", "nyo">>

Hypertension == <<"go", "hyeol", "ap">>

OtherObjects == << <<"am">>, <<"chi", "mae">>, <<"cheon", "sik">>, <<"gol", "jeol">> >>

TextTriple(object) == [object |-> object, code |-> <<>>]

TextLayer(objects) == Layer([i \in 1 .. Len(objects) |-> TextTriple(objects[i])])

\* "65세, 서울"
SummaryText == <<"6", "5", "se", ",", " ", "seo", "ul">>

\* "hello", " Hello? ", "당뇨 지원", "정책", " 혹시 지원? ", "a", "?", "", None
RawQueries ==
    { <<"h", "e", "l", "l", "o">>,
      <<" ", "H", "e", "l", "l", "o", "?", " ">>,
      Diabetes \o <<" ", "ji", "won">>,
      <<"jeong", "chaek">>,
      <<" ", "hok", "si", " ", "ji", "won", "?", " ">>,
      <<"a">>, <<"?">>, <<>>, NoneText }

Summaries == {NoneText, <<>>, SummaryText, SummaryText \o <<" ">>, <<" ">>}

LayersL0 ==
    { NoLayer, TextLayer(<<>>), TextLayer(<<Diabetes>>),
      TextLayer(<<Diabetes, <<" ">>, NoneText, <<" ">> \o Hypertension, Diabetes>>),
      TextLayer(<<Diabetes, Hypertension>> \o OtherObjects) }

LayersL1 == {NoLayer, TextLayer(<<Hypertension, Diabetes, <<"am">>>>)}

SyntheticQueryArgs ==
    [raw_query : RawQueries, profile_summary_text : Summaries,
     collection_L0 : LayersL0, collection_L1 : LayersL1]

NoResult == [returned |-> FALSE, value |-> <<>>]

InitQuery ==
    /\ CacheAfter(0)
    /\ InitThreads
    /\ InitNode
    /\ InitPool
    /\ InitAgent
    /\ fn_args \in SyntheticQueryArgs
    /\ fn_result = NoResult

\* lines 796-801: embedding_query = _build_synthetic_query(...)
CallBuildSyntheticQuery ==
    /\ fn_result = NoResult
    /\ fn_result' = [returned |-> TRUE,
                     value |-> BuildSyntheticQueryText(fn_args.raw_query,
                                   fn_args.profile_summary_text,
                                   fn_args.collection_L0, fn_args.collection_L1)]
    /\ UNCHANGED fn_args
    /\ UNCHANGED <<cacheVars, nodeVars, poolVars, agentVars>>

SpecQuery == InitQuery /\ [][CallBuildSyntheticQuery]_vars

(***************************************************************************)
(* _sanitize_region and the store query of _hybrid_search_documents        *)
(***************************************************************************)
\* str.split(): the maximal runs of characters that are no whitespace
RECURSIVE SplitText(_, _)
SplitText(text, cur) ==
    IF text = <<>> THEN (IF cur = <<>> THEN <<>> ELSE <<cur>>)
    ELSE IF Head(text) \notin Whitespace THEN SplitText(Tail(text), Append(cur, Head(text)))
    ELSE (IF cur = <<>> THEN <<>> ELSE <<cur>>) \o SplitText(Tail(text), <<>>)

\* line 439: "구", "군", "동", "시"
RegionSuffixes == {"gu", "gun", "dong", "si"}

\* a region value: a string or None, bare or as the "value" of a dict
RegionValue(is_dict, value) == [is_dict |-> is_dict, value |-> value]

SanitizeRegionFirstToken(region_value) ==
    IF region_value.value = NoneText THEN NoneText
    ELSE LET region_str == StripText(region_value.value)
             tokens == SplitText(region_str, <<>>)
             hits == {i \in DOMAIN tokens : tokens[i][Len(tokens[i])] \in RegionSuffixes}
         IN  IF region_str = <<>> THEN NoneText
             ELSE IF hits = {} THEN region_str
             ELSE tokens[CHOOSE i \in hits : \A j \in hits : i <= j]

\* _sanitize_region
SanitizeRegion(region_value) ==
    IF region_value.value = NoneText THEN NoneText
    ELSE LET region_str == StripText(region_value.value)
             tokens == SplitText(region_str, <<>>)
             hits == {i \in DOMAIN tokens : tokens[i][Len(tokens[i])] \in RegionSuffixes}
         IN  IF region_str = <<>> THEN NoneText
             ELSE IF hits = {} THEN region_str
             ELSE tokens[CHOOSE i \in hits : \A j \in hits : j <= i]

RegionFilterUnsanitized(merged_profile) ==
    IF ~merged_profile.present THEN NoneText
    ELSE IF merged_profile.residency_sgg_code.value # NoneText
            \/ merged_profile.residency_sgg_code.is_dict
         THEN merged_profile.residency_sgg_code.value
         ELSE merged_profile.region_gu.value

\* lines 546-551: the region of the profile, residency_sgg_code first
RegionFilter(merged_profile) ==
    IF ~merged_profile.present THEN NoneText
    ELSE SanitizeRegion(IF merged_profile.residency_sgg_code.value # NoneText
                           \/ merged_profile.residency_sgg_code.is_dict
                        THEN merged_profile.residency_sgg_code
                        ELSE merged_profile.region_gu)

\* "동작구", "강남구", "서울시 동작구"
DongjakGu == <<"dong", "jak", "gu">>

GangnamGu == <<"gang", "nam", "gu">>

SeoulDongjakGu == <<"seo", "ul", "si", " ">> \o DongjakGu

\* e.embedding <=> qvec of the title embedding of document id, in Milli
\* (NULL for a document stored without embedding)
Distance(id) == IF id = 3 THEN Null ELSE ((id * 7) % 23) * 40

\* the documents table joined with its title embeddings: regions[i] is
\* d.region of document i
Store(regions) ==
    [i \in 1 .. Len(regions) |-> [doc_id |-> i, region |-> regions[i], distance |-> Distance(i)]]

\* ORDER BY e.embedding <=> qvec (ascending, NULLs last)
DistanceKey(d) == IF d.distance = Null THEN <<1, 0>> ELSE <<0, d.distance>>

OrderByDistance(docs) ==
    Items(SortAscending([i \in 1 .. Len(docs) |->
                            [key |-> DistanceKey(docs[i]), item |-> docs[i]]]))

Limit(docs, limit) == SubSeq(docs, 1, Min(Len(docs), limit))

SqlSelectLimitThenFilter(store, region_filter, limit) ==
    LET first == Limit(OrderByDistance(store), limit)
    IN  IF region_filter # NoneText
        THEN SelectSeq(first, LAMBDA d : d.region = region_filter)
        ELSE first

\* lines 578-621: the rows of the query, WHERE d.region = region when a
\* region filter is there
SqlSelect(store, region_filter, limit) ==
    LET matching == IF region_filter # NoneText
                    THEN SelectSeq(store, LAMBDA d : d.region = region_filter)
                    ELSE store
    IN  Limit(OrderByDistance(matching), limit)

\* line 587: 1 - (e.embedding <=> qvec) AS similarity
RowSimilarity(d) ==
    [doc_id |-> d.doc_id,
     similarity |-> IF d.distance = Null THEN Null ELSE Milli - d.distance]

\* lines 544-693 for a query text that is not empty
HybridSearchDocuments(store, merged_profile, top_k) ==
    LET rows == SqlSelect(store, RegionFilter(merged_profile), top_k)
    IN  RowsToSnippets([i \in 1 .. Len(rows) |-> RowSimilarity(rows[i])])

\* stores of up to MaxStoreDocs documents with any regions (None: NULL), and
\* one of BigStoreDocs documents, every other one in 동작구
MaxStoreDocs == 3

BigStoreDocs == 20

StoreRegions == {DongjakGu, GangnamGu, SeoulDongjakGu, NoneText}

Stores ==
    { Store(regions) : regions \in UNION { [1 .. n -> StoreRegions] : n \in 0 .. MaxStoreDocs } }
        \cup { Store([i \in 1 .. BigStoreDocs |-> IF i % 2 = 0 THEN DongjakGu ELSE GangnamGu]) }

NoRegion == RegionValue(FALSE, NoneText)

SearchProfile(residency_sgg_code, region_gu) ==
    [present |-> TRUE, residency_sgg_code |-> residency_sgg_code, region_gu |-> region_gu]

\* no profile; no region key; region_gu "동작구"; residency_sgg_code
\* {"value": "서울시 동작구"}, " 강남구 ", "서울", "" (with region_gu "강남구"),
\* " ", {"value": None} or {}
SearchProfiles ==
    { [present |-> FALSE, residency_sgg_code |-> NoRegion, region_gu |-> NoRegion],
      SearchProfile(NoRegion, NoRegion),
      SearchProfile(RegionValue(FALSE, <<" ">>), NoRegion),
      SearchProfile(NoRegion, RegionValue(FALSE, DongjakGu)),
      SearchProfile(RegionValue(TRUE, SeoulDongjakGu), NoRegion),
      SearchProfile(RegionValue(FALSE, <<" ">> \o GangnamGu \o <<" ">>), NoRegion),
      SearchProfile(RegionValue(FALSE, <<"seo", "ul">>), NoRegion),
      SearchProfile(RegionValue(FALSE, <<>>), RegionValue(FALSE, GangnamGu)),
      SearchProfile(RegionValue(TRUE, NoneText), RegionValue(FALSE, GangnamGu)) }

SearchArgs == [store : Stores, merged_profile : SearchProfiles, top_k : {1, 2, RAW_TOP_K}]

InitSearch ==
    /\ CacheAfter(0)
    /\ InitThreads
    /\ InitNode
    /\ InitPool
    /\ InitAgent
    /\ fn_args \in SearchArgs
    /\ fn_result = NoResult

\* lines 803-807: rag_docs, debug_keywords = _hybrid_search_documents(...)
CallHybridSearchDocuments ==
    /\ fn_result = NoResult
    /\ fn_result' = [returned |-> TRUE,
                     value |-> HybridSearchDocuments(fn_args.store, fn_args.merged_profile,
                                                     fn_args.top_k)]
    /\ UNCHANGED fn_args
    /\ UNCHANGED <<cacheVars, nodeVars, poolVars, agentVars>>

SpecSearch == InitSearch /\ [][CallHybridSearchDocuments]_vars

(***************************************************************************)
(* _sanitize_region on its own                                             *)
(***************************************************************************)
\* "서울특별시 동작구", "Unknown"
SeoulTeukbyeolsiDongjakGu == <<"seo", "ul", "teuk", "byeol", "si", " ">> \o DongjakGu

Unknown == <<"U", "n", "k", "n", "o", "w", "n">>

MaxRegionLen == 4

RegionChars == {"gang", "gu", "si", " "}

\* None, strings and {"value": ...} dicts of up to MaxRegionLen characters,
\* and the two region values above
RegionValues ==
    [is_dict : BOOLEAN,
     value : UNION { [1 .. n -> RegionChars] : n \in 0 .. MaxRegionLen }
                \cup {NoneText, SeoulTeukbyeolsiDongjakGu, SeoulDongjakGu, Unknown}]

InitRegion ==
    /\ CacheAfter(0)
    /\ InitThreads
    /\ InitNode
    /\ InitPool
    /\ InitAgent
    /\ fn_args \in RegionValues
    /\ fn_result = NoResult

\* line 551: region_filter = _sanitize_region(region_val)
CallSanitizeRegion ==
    /\ fn_result = NoResult
    /\ fn_result' = [returned |-> TRUE, value |-> SanitizeRegion(fn_args)]
    /\ UNCHANGED fn_args
    /\ UNCHANGED <<cacheVars, nodeVars, poolVars, agentVars>>

SpecRegion == InitRegion /\ [][CallSanitizeRegion]_vars

(***************************************************************************)
(* _build_bm25_terms_from_layers on its own                                *)
(***************************************************************************)
MaxTriples == 2

\* triples with object and code, with the same token in another case, and
\* with two tokens in the object
TermTriples ==
    { Triple(<<"diabetes">>, <<"E11">>), Triple(<<"e11">>, <<>>),
      Triple(<<"diabetes", "care">>, <<>>) }

\* a layer that is None, or holds up to MaxTriples triples
TermLayers ==
    {NoLayer} \cup { Layer(ts) : ts \in UNION { [1 .. n -> TermTriples] : n \in 0 .. MaxTriples } }

InitTerms ==
    /\ CacheAfter(0)
    /\ InitThreads
    /\ InitNode
    /\ InitPool
    /\ InitAgent
    /\ fn_args \in [L0 : TermLayers, L1 : TermLayers, L2 : TermLayers]
    /\ fn_result = NoResult

\* lines 849-853: bm25_terms = _build_bm25_terms_from_layers(...)
CallBuildBm25TermsFromLayers ==
    /\ fn_result = NoResult
    /\ fn_result' = [returned |-> TRUE,
                     value |-> BuildBm25TermsFromLayers(fn_args.L0, fn_args.L1, fn_args.L2)]
    /\ UNCHANGED fn_args
    /\ UNCHANGED <<cacheVars, nodeVars, poolVars, agentVars>>

SpecTerms == InitTerms /\ [][CallBuildBm25TermsFromLayers]_vars

(***************************************************************************)
(* _apply_bm25_rerank on its own                                           *)
(***************************************************************************)
MaxCandidates == 3

MaxTerms == 4

RerankTokens == {"diabetes", "subsidy", "dialysis"}

\* the similarities of documents 1 .. 8, as two stores give them
SimilarityTables ==
    { <<900, 800, 700, 600, 500, 400, 350, 300>>,
      <<100, 0, 50, Null, 20, 100, Milli, 0>> }

\* a snippet as _hybrid_search_documents returns it (lines 671-679)
Candidate(id, sims) ==
    [doc_id |-> id, similarity |-> sims[id], score |-> sims[id], bm25_score |-> Null]

\* up to MaxCandidates different documents, and up to MaxTerms terms
RerankArgs ==
    { [docs |-> [i \in DOMAIN ids |-> Candidate(ids[i], sims)], query_terms |-> terms] :
        ids \in { s \in UNION { [1 .. n -> 1 .. 8] : n \in 0 .. MaxCandidates } :
                    \A i, j \in DOMAIN s : i < j => s[i] < s[j] },
        sims \in SimilarityTables,
        terms \in UNION { [1 .. n -> RerankTokens] : n \in 0 .. MaxTerms } }

InitRerank ==
    /\ CacheAfter(0)
    /\ InitThreads
    /\ InitNode
    /\ InitPool
    /\ InitAgent
    /\ fn_args \in RerankArgs
    /\ fn_result = NoResult

\* line 856: _apply_bm25_rerank(rag_docs, bm25_terms)
CallApplyBm25Rerank ==
    /\ fn_result = NoResult
    /\ fn_result' = [returned |-> TRUE,
                     value |-> ApplyBm25Rerank(fn_args.docs, fn_args.query_terms)]
    /\ UNCHANGED fn_args
    /\ UNCHANGED <<cacheVars, nodeVars, poolVars, agentVars>>

SpecRerank == InitRerank /\ [][CallApplyBm25Rerank]_vars

(***************************************************************************)
(* Sermon agent: the graph query_router -> sermon_retriever ->             *)
(* answer_creator                                                          *)
(***************************************************************************)
SERMON_TOP_K == 5

SERMON_SIMILARITY_FLOOR == (3 * Milli) \div 10

ResetActions == {"reset", "reset_save", "reset_drop"}

\* state["user_action"]: None, or a string
UserActions == {"none", "chat", "save", "other"} \cup ResetActions

\* state["user_input"]: None, "", " ", "a", " a"
UserInputs == {NoneText, <<>>, <<" ">>, <<"a">>, <<" ", "a">>}

InitSermon ==
    /\ CacheAfter(0)
    /\ InitThreads
    /\ InitNode
    /\ InitPool
    /\ InitFn
    /\ gnode = "query_router"
    /\ \E user_input \in UserInputs : \E user_action \in UserActions :
          sermon_state = [NoSermonState EXCEPT !.user_input = user_input,
                                               !.user_action = user_action]
    /\ executed = <<>>
    /\ session = NewSession(DefaultMaxHistory)
    /\ since_clear = <<>>

\* query_router_node, lines 245-370: what it returns for router and next;
\* llm is what _call_router_llm does: use_rag ("rag"), not ("norag"), or an
\* exception ("error")
QueryRouter(state, llm) ==
    LET text == StripText(OrEmpty(state.user_input))
        action == IF state.user_action = "none" THEN "chat" ELSE state.user_action
    IN  IF action = "save" \/ action \in ResetActions \/ text = <<>>
        THEN [router |-> [set |-> TRUE, use_rag |-> FALSE], next |-> "end"]
        ELSE IF llm = "norag"
        THEN [router |-> [set |-> TRUE, use_rag |-> FALSE], next |-> "answer_creator"]
        ELSE [router |-> [set |-> TRUE, use_rag |-> TRUE], next |-> "sermon_retriever"]

QueryRouterNode ==
    /\ gnode = "query_router"
    /\ \E llm \in {"rag", "norag", "error"} :
          sermon_state' = [sermon_state EXCEPT
                              !.router = QueryRouter(sermon_state, llm).router,
                              !.next = QueryRouter(sermon_state, llm).next]
    /\ executed' = Append(executed, "query_router")
    /\ gnode' = "route"
    /\ UNCHANGED <<session, since_clear>>
    /\ UNCHANGED <<cacheVars, nodeVars, poolVars, fnVars>>

RouteAfterRouterNeverEnds(state) ==
    IF state.router.set /\ state.router.use_rag THEN "sermon_retriever"
    ELSE "answer_creator"

\* route_after_router (graph.py lines 46-60)
RouteAfterRouter(state) ==
    IF state.next = "end" THEN "end"
    ELSE IF state.router.set /\ state.router.use_rag THEN "sermon_retriever"
    ELSE "answer_creator"

\* the conditional edge after query_router (graph.py lines 96-105)
ConditionalEdge ==
    /\ gnode = "route"
    /\ gnode' = RouteAfterRouter(sermon_state)
    /\ UNCHANGED <<sermon_state, executed, session, since_clear>>
    /\ UNCHANGED <<cacheVars, nodeVars, poolVars, fnVars>>

\* what the store query of _search_sermons does: it raises, or it returns
\* up to SERMON_TOP_K rows, by their similarities
SermonStoreOutcomes ==
    { [raised |-> TRUE, rows |-> <<>>] }
        \cup { [raised |-> FALSE, rows |-> Repeat((9 * Milli) \div 10, above)
                                             \o Repeat((2 * Milli) \div 10, under)
                                             \o Repeat(Null, nulls)] :
                 above \in 0 .. SERMON_TOP_K, under \in 0 .. 1, nulls \in 0 .. 1 }

\* _search_sermons lines 206-210: None counts as 0.0, rows under the floor
\* are skipped
SermonResults(rows) ==
    SelectSeq([i \in DOMAIN rows |-> IF rows[i] = Null THEN 0 ELSE rows[i]],
              LAMBDA sim : sim >= SERMON_SIMILARITY_FLOOR)

SermonRetrieverDropsError(state, embed_ok, store) ==
    [state EXCEPT !.rag_snippets = SermonResults(store.rows),
                  !.retrieval = [set |-> TRUE, used_rag |-> TRUE, error |-> FALSE,
                                 count |-> Len(SermonResults(store.rows))],
                  !.embed_failed = ~embed_ok,
                  !.store_failed = store.raised]

\* sermon_retriever_node, lines 290-361, with _embed_text (lines 113-139),
\* which turns a failure of the model into a zero vector, and the store
\* query of _search_sermons; embed_failed and store_failed are no keys of
\* the State: they record what happened
SermonRetriever(state, embed_ok, store) ==
    IF StripText(OrEmpty(state.user_input)) = <<>>
    THEN [state EXCEPT !.rag_snippets = <<>>,
                       !.retrieval = [set |-> TRUE, used_rag |-> FALSE, error |-> FALSE,
                                      count |-> 0]]
    ELSE IF store.raised
    THEN [state EXCEPT !.rag_snippets = <<>>,
                       !.retrieval = [set |-> TRUE, used_rag |-> TRUE, error |-> TRUE,
                                      count |-> 0],
                       !.embed_failed = ~embed_ok,
                       !.store_failed = TRUE]
    ELSE [state EXCEPT !.rag_snippets = SermonResults(store.rows),
                       !.retrieval = [set |-> TRUE, used_rag |-> TRUE, error |-> FALSE,
                                      count |-> Len(SermonResults(store.rows))],
                       !.embed_failed = ~embed_ok]

\* the node, and the edge to answer_creator (graph.py line 109)
SermonRetrieverNode ==
    /\ gnode = "sermon_retriever"
    /\ \E embed_ok \in BOOLEAN : \E store \in SermonStoreOutcomes :
          sermon_state' = SermonRetriever(sermon_state, embed_ok, store)
    /\ executed' = Append(executed, "sermon_retriever")
    /\ gnode' = "answer_creator"
    /\ UNCHANGED <<session, since_clear>>
    /\ UNCHANGED <<cacheVars, nodeVars, poolVars, fnVars>>

\* answer_creator_node, and the edge to END (graph.py line 112)
AnswerCreatorNode ==
    /\ gnode = "answer_creator"
    /\ sermon_state' = [sermon_state EXCEPT !.answer = TRUE]
    /\ executed' = Append(executed, "answer_creator")
    /\ gnode' = "end"
    /\ UNCHANGED <<session, since_clear>>
    /\ UNCHANGED <<cacheVars, nodeVars, poolVars, fnVars>>

NextSermon ==
    \/ QueryRouterNode
    \/ ConditionalEdge
    \/ SermonRetrieverNode
    \/ AnswerCreatorNode

SpecSermon == InitSermon /\ [][NextSermon]_vars

\* graph.invoke runs every node that is due: no run is left waiting
SpecSermonLive == SpecSermon /\ WF_vars(NextSermon)

(***************************************************************************)
(* ConversationSession (new_pipeline.py)                                   *)
(***************************************************************************)
MaxMessages == 22

\* the session get_session creates, and one with a smaller max_history
InitSession ==
    /\ CacheAfter(0)
    /\ InitThreads
    /\ InitNode
    /\ InitPool
    /\ InitFn
    /\ gnode = "idle"
    /\ sermon_state = NoSermonState
    /\ executed = <<>>
    /\ \E max_history \in {2, DefaultMaxHistory} : session = NewSession(max_history)
    /\ since_clear = <<>>

\* the message an add is called with: the content stands for the text, a
\* different one for every message since the last clear
Message(role) == [role |-> role, content |-> Len(since_clear) + 1]

TrimHistoryKeepsOldest(s) ==
    IF Len(s.history) > s.max_history * 2
    THEN [s EXCEPT !.history = SubSeq(s.history, 1, s.max_history * 2)]
    ELSE s

\* _trim_history: history[-max_history * 2:] (the whole list for -0)
TrimHistory(s) ==
    IF Len(s.history) > s.max_history * 2
    THEN [s EXCEPT !.history =
            IF s.max_history * 2 = 0 THEN s.history
            ELSE SubSeq(s.history, Len(s.history) - s.max_history * 2 + 1, Len(s.history))]
    ELSE s

\* add_user_message (run_pipeline line 256)
AddUserMessage ==
    /\ gnode = "idle"
    /\ Len(since_clear) < MaxMessages
    /\ session' = TrimHistory([session EXCEPT
                                  !.history = Append(session.history, Message("user")),
                                  !.turn_count = session.turn_count + 1])
    /\ since_clear' = Append(since_clear, Message("user"))
    /\ UNCHANGED <<gnode, sermon_state, executed>>
    /\ UNCHANGED <<cacheVars, nodeVars, poolVars, fnVars>>

\* add_assistant_message (run_pipeline line 293: the answer to the user
\* message the run has added)
AddAssistantMessage ==
    /\ gnode = "idle"
    /\ Len(since_clear) < MaxMessages
    /\ since_clear # <<>>
    /\ since_clear[Len(since_clear)].role = "user"
    /\ session' = TrimHistory([session EXCEPT
                                  !.history = Append(session.history, Message("assistant"))])
    /\ since_clear' = Append(since_clear, Message("assistant"))
    /\ UNCHANGED <<gnode, sermon_state, executed>>
    /\ UNCHANGED <<cacheVars, nodeVars, poolVars, fnVars>>

\* clear, as clear_session calls it
Clear ==
    /\ gnode = "idle"
    /\ session' = [session EXCEPT !.history = <<>>, !.turn_count = 0]
    /\ since_clear' = <<>>
    /\ UNCHANGED <<gnode, sermon_state, executed>>
    /\ UNCHANGED <<cacheVars, nodeVars, poolVars, fnVars>>

NextSession ==
    \/ AddUserMessage
    \/ AddAssistantMessage
    \/ Clear

SpecSession == InitSession /\ [][NextSession]_vars


\* concurrent requests: any thread may take its next step
Next ==
    \E t \in Threads :
        \/ \E text \in Texts : EmbedEnter(t, text)
        \/ EmbedStep(t)
        \/ EmbedReturn(t)

Spec == Init /\ [][Next]_vars

\* sequential calls: a call starts only when no other call is running
NextSeq ==
    \E t \in Threads :
        \/ \E text \in Texts : (InFlight = 0 /\ EmbedEnter(t, text))
        \/ EmbedStep(t)
        \/ EmbedReturnSeq(t)

SpecSeq == Init /\ [][NextSeq]_vars

(***************************************************************************)
(* Properties of the embedding cache                                       *)
(***************************************************************************)
NoDup(s) == \A i, j \in 1 .. Len(s) : s[i] = s[j] => i = j

LastN(s, n) == IF Len(s) <= n THEN s ELSE SubSeq(s, Len(s) - n + 1, Len(s))

Finished(t) == pc[t] = "ret" /\ loc[t].key # NoKey

\* C1: after sequential calls the cache holds at most EMBEDDING_CACHE_SIZE
\* entries, and they are the most recently stored keys in storing order (a
\* hit stores nothing, so it moves nothing); once EMBEDDING_CACHE_SIZE + 1
\* distinct keys were stored the first is absent and the others present.
CacheHoldsMostRecentKeys ==
    InFlight = 0 =>
        /\ Cardinality(DOMAIN cache) <= EMBEDDING_CACHE_SIZE
        /\ cache_order = LastN(inserted, EMBEDDING_CACHE_SIZE)
        /\ NoDup(cache_order)
        /\ DOMAIN cache = Range(cache_order)
        /\ (Len(inserted) = EMBEDDING_CACHE_SIZE + 1 /\ NoDup(inserted)) =>
              /\ inserted[1] \notin DOMAIN cache
              /\ \A i \in 2 .. Len(inserted) : inserted[i] \in DOMAIN cache

\* EMBEDDING_CACHE_SIZE + 1 distinct keys were stored: the cache is full and
\* the first-stored key, evicted by the last call's insert, is absent
CacheEvictedOldest ==
    /\ InFlight = 0
    /\ Len(inserted) = EMBEDDING_CACHE_SIZE + 1
    /\ NoDup(inserted)
    /\ inserted[1] \notin DOMAIN cache
    /\ Cardinality(DOMAIN cache) = EMBEDDING_CACHE_SIZE
    /\ prev.key = inserted[Len(inserted)]
    /\ prev.prov = 1

\* C2: whenever no call is in progress the queue holds each cached key
\* exactly once and the map's key set equals the queue's key set.
QueueConsistentWhenQuiescent ==
    InFlight = 0 => (NoDup(cache_order) /\ DOMAIN cache = Range(cache_order))

\* C3 as stated: every call on a non-empty text consults the cache first; a
\* miss makes exactly one provider call and exactly one insertion, a hit
\* makes neither.
MissCallsProviderOncePutsOnce ==
    \A t \in Threads :
        /\ (loc[t].prov > 0 \/ loc[t].puts > 0) => loc[t].consulted = "miss"
        /\ Finished(t) =>
              /\ loc[t].consulted \in {"hit", "miss"}
              /\ loc[t].consulted = "miss" => (loc[t].prov = 1 /\ loc[t].puts = 1)
              /\ loc[t].consulted = "hit" => (loc[t].prov = 0 /\ loc[t].puts = 0)

\* C3 amended: a miss makes exactly one provider call, and exactly one
\* insertion when the provider answers, none when the provider call fails.
MissCallsProviderOncePutsOnSuccess ==
    \A t \in Threads :
        /\ (loc[t].prov > 0 \/ loc[t].puts > 0) => loc[t].consulted = "miss"
        /\ Finished(t) =>
              /\ loc[t].consulted \in {"hit", "miss"}
              /\ loc[t].consulted = "miss" =>
                    /\ loc[t].prov = 1
                    /\ loc[t].puts = (IF loc[t].failed THEN 0 ELSE 1)
              /\ loc[t].consulted = "hit" => (loc[t].prov = 0 /\ loc[t].puts = 0)

\* one call has completed a miss whose provider call failed, another a miss
\* whose provider call succeeded
MissFailedAndMissStored ==
    \E t, u \in Threads :
        /\ Finished(t) /\ loc[t].consulted = "miss" /\ loc[t].failed
        /\ Finished(u) /\ loc[u].consulted = "miss" /\ loc[u].puts = 1

\* C4 as stated: embed(t) returns a vector of the configured dimension, and
\* a second embed(t) right after the first is served from the cache: same
\* vector, no provider call.
SecondEmbedServedFromCache ==
    \A t \in Threads :
        Finished(t) =>
            /\ loc[t].ret.dim = EMBEDDING_DIMENSION
            /\ loc[t].key = prev.key =>
                  /\ loc[t].consulted = "hit"
                  /\ loc[t].prov = 0
                  /\ loc[t].ret = prev.ret

\* C4 amended: the second call is served from the cache when the first
\* call's vector came from the cache or from a provider call that succeeded.
SecondEmbedServedFromCacheAfterSuccess ==
    \A t \in Threads :
        Finished(t) =>
            /\ loc[t].ret.dim = EMBEDDING_DIMENSION
            /\ (loc[t].key = prev.key /\ ~prev.failed) =>
                  /\ loc[t].consulted = "hit"
                  /\ loc[t].prov = 0
                  /\ loc[t].ret = prev.ret

\* a text was embedded by the provider and the very next call asked for the
\* same text and found it in the cache
SecondEmbedAfterProviderCall ==
    \E t \in Threads :
        /\ Finished(t)
        /\ loc[t].key = prev.key
        /\ prev.prov = 1
        /\ ~prev.failed
        /\ loc[t].consulted = "hit"

(***************************************************************************)
(* Properties of the retrieval node                                        *)
(***************************************************************************)
StoreFailed == hist.outcome \in {"pool_exhausted", "query_error"}

\* the snippets that are retrieved documents (not the appended system one)
Retrieved(snippets) == SelectSeq(snippets, LAMBDA d : d.doc_id # SystemDocId)

\* C5: when the store query of a request fails (pool exhausted or query
\* error), what the node returns differs from what it returns for the same
\* request after a successful search that found no matches.
StoreFailureIsDistinguishable ==
    (npc = "done" /\ StoreFailed) => out # FinalOutput(req, <<>>, <<>>)

\* C6 as stated: for every input state the returned rag_snippets has at most
\* CONTEXT_TOP_K entries.
SnippetsAtMostContextTopK ==
    npc = "done" => Len(out.rag_snippets) <= CONTEXT_TOP_K

\* C6 amended: the returned rag_snippets holds at most CONTEXT_TOP_K retrieved
\* documents, followed by one system snippet exactly when the request ends
\* the session or its text has a save word.
RetrievedAtMostContextTopK ==
    npc = "done" =>
        /\ Len(Retrieved(out.rag_snippets)) <= CONTEXT_TOP_K
        /\ Len(out.rag_snippets) = Len(Retrieved(out.rag_snippets))
              + (IF req.end_session \/ req.user_input.save THEN 1 ELSE 0)
        /\ Len(out.rag_snippets) <= CONTEXT_TOP_K + 1

\* more rows than CONTEXT_TOP_K came back, the list was cut to CONTEXT_TOP_K
\* and the system snippet was appended to it
TruncatedThenPersistAppended ==
    /\ npc = "done"
    /\ Len(hist.post_floor) > CONTEXT_TOP_K
    /\ Len(out.rag_snippets) = CONTEXT_TOP_K + 1
    /\ out.rag_snippets[CONTEXT_TOP_K + 1].doc_id = SystemDocId

\* C7 as stated: when the search returns n raw candidates the final list has
\* at least min(n, MIN_CANDIDATES_AFTER_FLOOR) entries, whatever the profile
\* filter, the floor and the truncation do.
FinalAtLeastMinOfRaw ==
    (npc = "done" /\ hist.outcome = "rows") =>
        Len(out.rag_snippets) >= Min(hist.raw_n, MIN_CANDIDATES_AFTER_FLOOR)

\* C7 amended: when the profile filter leaves m of the raw candidates, the
\* final list holds at least min(m, MIN_CANDIDATES_AFTER_FLOOR) of them,
\* whatever the floor and the truncation do.
FinalAtLeastMinOfFiltered ==
    (npc = "done" /\ hist.outcome = "rows") =>
        /\ Len(hist.filtered) <= hist.raw_n
        /\ Len(Retrieved(out.rag_snippets))
              >= Min(Len(hist.filtered), MIN_CANDIDATES_AFTER_FLOOR)

\* the profile filter has removed some of the raw candidates and left fewer
\* than MIN_CANDIDATES_AFTER_FLOOR, some of them under the floor: all of
\* them are returned
ProfileFilterLeftFewAllReturned ==
    /\ npc = "done"
    /\ hist.outcome = "rows"
    /\ 0 < Len(hist.filtered)
    /\ Len(hist.filtered) < hist.raw_n
    /\ Len(hist.filtered) < MIN_CANDIDATES_AFTER_FLOOR
    /\ \E i \in DOMAIN hist.filtered :
          /\ hist.filtered[i].similarity # Null
          /\ hist.filtered[i].similarity < SIMILARITY_FLOOR
    /\ Len(Retrieved(out.rag_snippets)) = Len(hist.filtered)

\* the similarities of the documented example, in Milli
FloorExample ==
    LET sims == <<900, 500, 350, 200, 150, 100, 100, 100, 100, 100>>
    IN  [i \in 1 .. Len(sims) |->
            [doc_id |-> i, similarity |-> (sims[i] * Milli) \div 1000,
             score |-> (sims[i] * Milli) \div 1000, bm25_score |-> Null]]

AtOrAboveFloor(docs) ==
    SelectSeq(docs, LAMBDA d : d.similarity # Null /\ d.similarity >= SIMILARITY_FLOOR)

\* C8: the floor is all-or-nothing: the candidates after the floor are
\* exactly those with similarity >= SIMILARITY_FLOOR when at least
\* MIN_CANDIDATES_AFTER_FLOOR of them have it, and otherwise the candidates
\* before the floor, unchanged; so MIN_CANDIDATES_AFTER_FLOOR or more
\* candidates never become fewer than that, and the ten candidates of the
\* example (three at or above 0.3) all remain.
FloorIsAllOrNothing ==
    /\ npc \in {"floored", "reranked", "ranked", "done"} =>
          /\ hist.post_floor =
                IF Len(AtOrAboveFloor(hist.pre_floor)) >= MIN_CANDIDATES_AFTER_FLOOR
                THEN AtOrAboveFloor(hist.pre_floor)
                ELSE hist.pre_floor
          /\ Len(hist.pre_floor) >= MIN_CANDIDATES_AFTER_FLOOR =>
                Len(hist.post_floor) >= MIN_CANDIDATES_AFTER_FLOOR
    /\ Len(AtOrAboveFloor(FloorExample)) = 3
    /\ SimilarityFloor(FloorExample) = FloorExample

\* MIN_CANDIDATES_AFTER_FLOOR or more candidates reached the floor, some but
\* fewer than MIN_CANDIDATES_AFTER_FLOOR of them at or above it: none dropped
FloorWithheld ==
    /\ npc = "floored"
    /\ Len(hist.pre_floor) >= MIN_CANDIDATES_AFTER_FLOOR
    /\ 0 < Len(AtOrAboveFloor(hist.pre_floor))
    /\ Len(AtOrAboveFloor(hist.pre_floor)) < MIN_CANDIDATES_AFTER_FLOOR
    /\ hist.post_floor = hist.pre_floor

\* C9: every candidate in the returned list carries a non-null score, also
\* when the store returned a null similarity and when the layers give no
\* terms so that the BM25 re-ranking is skipped.
EveryReturnedScoreNonNull ==
    npc = "done" =>
        \A i \in DOMAIN out.rag_snippets : out.rag_snippets[i].score # Null

\* C10: when the provider call fails _embed_text returns the zero vector of
\* EMBEDDING_DIMENSION and does not raise, and the request goes on to the
\* store query with that vector.
ProviderFailureGoesOnToStoreQuery ==
    /\ \A t \in Threads :
          (pc[t] = "ret" /\ loc[t].failed) =>
              /\ ~loc[t].raised
              /\ loc[t].ret = ZeroVector
              /\ loc[t].ret.dim = EMBEDDING_DIMENSION
    /\ hist.embed_failed =>
          /\ hist.qvec = ZeroVector
          /\ npc = "query" \/ hist.outcome \in {"rows", "pool_exhausted", "query_error"}

\* the provider call of a request failed and its store query returned rows
\* that reached the caller
ProviderFailedRowsReturned ==
    /\ npc = "done"
    /\ hist.embed_failed
    /\ hist.qvec = ZeroVector
    /\ hist.outcome = "rows"
    /\ Len(Retrieved(out.rag_snippets)) > 0

(***************************************************************************)
(* Properties of failed and empty embedding calls                          *)
(***************************************************************************)
\* C11: a provider call that fails leaves the cache map and the queue as
\* they were: the zero vector it returns is never stored, so the next embed
\* of the same text misses and invokes the provider again.
FailedProviderCallStoresNothing ==
    /\ [](/\ \A k \in DOMAIN cache : cache[k] # ZeroVector
          /\ \A t \in Threads :
                (pc[t] = "ret" /\ loc[t].failed) =>
                    /\ loc[t].puts = 0
                    /\ loc[t].key \notin DOMAIN cache
                    /\ loc[t].key \notin Range(cache_order)
          /\ \A t \in Threads :
                (Finished(t) /\ prev.failed /\ prev.key = loc[t].key) =>
                    (loc[t].consulted = "miss" /\ loc[t].prov = 1))
    /\ [][\A t \in Threads :
            (pc[t] = "api" /\ pc'[t] = "ret") =>
                (cache' = cache /\ cache_order' = cache_order
                    /\ inserted' = inserted)]_vars

\* a call whose provider call failed was followed by a call for the same
\* text, which missed and got a vector from the provider
RetryAfterFailureAsksProvider ==
    \E t \in Threads :
        /\ Finished(t)
        /\ prev.failed
        /\ prev.ret = ZeroVector
        /\ prev.key = loc[t].key
        /\ loc[t].prov = 1
        /\ ~loc[t].failed
        /\ loc[t].ret # ZeroVector

\* C12: empty or whitespace-only text maps directly to the zero vector: the
\* call neither invokes the provider nor reads or changes the cache, and the
\* empty text is never a key of the cache.
EmptyTextBypassesCacheAndProvider ==
    /\ [](/\ NoKey \notin DOMAIN cache
          /\ NoKey \notin Range(cache_order)
          /\ \A t \in Threads :
                (pc[t] = "ret" /\ loc[t].key = NoKey) =>
                    /\ loc[t].ret = ZeroVector
                    /\ loc[t].consulted = "no"
                    /\ loc[t].prov = 0
                    /\ loc[t].puts = 0
                    /\ ~loc[t].raised)
    /\ [][\A t \in Threads :
            (pc[t] = "idle" /\ pc'[t] = "ret") =>
                (cache' = cache /\ cache_order' = cache_order
                    /\ loc'[t].ret = ZeroVector)]_vars

\* a call on empty or whitespace-only text has returned the zero vector
\* while the cache holds what the calls before it stored
EmptyTextReturnedZeroVector ==
    \E t \in Threads :
        /\ pc[t] = "ret"
        /\ loc[t].key = NoKey
        /\ loc[t].ret = ZeroVector
        /\ loc[t].prov = 0
        /\ Len(inserted) > Prefill

(***************************************************************************)
(* Properties of the connection pool                                       *)
(***************************************************************************)
\* C13: at any time, across the concurrent requests, at most max_size
\* connections are in use and all of them come from one shared pool
\* instance: a request that gets no connection fails, none opens a further one.
AtMostMaxSizeFromOnePool ==
    /\ InUse <= max_size
    /\ Len(pools) <= 1
    /\ \A r \in PoolRequests :
          ppc[r] \in {"acquire", "using"} => ploc[r] = connection_pool

(***************************************************************************)
(* Properties of the order of the stages                                   *)
(***************************************************************************)
AfterFloor == npc \in {"floored", "reranked", "ranked", "done"}

Survived(d) == d.doc_id \notin req.merged_profile.excluded

\* C14: within a request the profile filter runs before the floor and before
\* the BM25 scoring: the floor takes the filter's output and makes its
\* MIN_CANDIDATES_AFTER_FLOOR test on it, and the BM25 scores are computed
\* over candidates that survived the filter only.
ProfileFilterBeforeFloorAndBm25 ==
    AfterFloor =>
        /\ hist.pre_floor = hist.filtered
        /\ hist.filter_invoked =>
              \A i \in DOMAIN hist.pre_floor : Survived(hist.pre_floor[i])
        /\ Len(hist.post_floor) < Len(hist.filtered) =>
              /\ Len(AtOrAboveFloor(hist.filtered)) >= MIN_CANDIDATES_AFTER_FLOOR
              /\ hist.post_floor = AtOrAboveFloor(hist.filtered)
        /\ (npc = "reranked" /\ hist.filter_invoked) =>
              /\ \A i \in DOMAIN rag_docs : Survived(rag_docs[i])
              /\ bm25_terms # <<>> =>
                    rag_docs = ApplyBm25Rerank(SimilarityFloor(hist.filtered), bm25_terms)

\* the profile filter removed candidates, the floor removed more of what
\* was left, and the rest was scored with BM25
FilteredThenFlooredThenScored ==
    /\ npc = "reranked"
    /\ hist.filter_invoked
    /\ Len(hist.filtered) < hist.raw_n
    /\ Len(hist.post_floor) < Len(hist.filtered)
    /\ bm25_terms # <<>>
    /\ \A i \in DOMAIN rag_docs : rag_docs[i].bm25_score # Null

NoProfileSkipsProfileFilter ==
    [][(npc = "searched" /\ (~req.merged_profile.present \/ req.merged_profile.empty)) =>
          /\ npc' = "filtered"
          /\ rag_docs' = rag_docs
          /\ ~hist'.filter_invoked
          /\ hist'.filtered = rag_docs]_vars

\* a request with an empty profile has passed the filter stage with the
\* candidates of the search, the filter not invoked
EmptyProfilePassedUnfiltered ==
    /\ npc = "filtered"
    /\ req.merged_profile.present
    /\ req.merged_profile.empty
    /\ ~hist.filter_invoked
    /\ Len(rag_docs) = hist.raw_n
    /\ hist.raw_n > 0

(***************************************************************************)
(* Properties of _build_synthetic_query                                    *)
(***************************************************************************)
Hello == <<"h", "e", "l", "l", "o">>

\* "65세, 서울 최근 상황: 당뇨 관련 의료·복지 지원 정책"
ScenarioSynthetic ==
    SummaryText \o <<" ">> \o RecentLabel \o Diabetes \o <<" ">> \o TrailingPhrase

\* profile summary "65세, 서울", L0 triples [{object: "당뇨"}], no L1
ScenarioContext ==
    /\ fn_result.returned
    /\ fn_args.profile_summary_text = SummaryText
    /\ fn_args.collection_L0 = TextLayer(<<Diabetes>>)
    /\ fn_args.collection_L1 = NoLayer

\* C17 as stated: for raw query "hello", profile summary "65세, 서울" and L0
\* triples [{object: "당뇨"}] the builder returns exactly
\* "65세, 서울 최근 상황: 당뇨 관련 의료·복지 지원 정책".
HelloGivesSyntheticQuery ==
    (ScenarioContext /\ fn_args.raw_query = Hello) =>
        fn_result.value = ScenarioSynthetic

\* C17 amended: with that profile summary and those L0 triples the builder
\* returns "hello" for the raw query "hello" (hello is a keyword), and
\* exactly "65세, 서울 최근 상황: 당뇨 관련 의료·복지 지원 정책" for the raw
\* query "정책", which has no keyword.
StopwordQueryGivesSyntheticQuery ==
    ScenarioContext =>
        /\ fn_args.raw_query = Hello => fn_result.value = Hello
        /\ fn_args.raw_query = <<"jeong", "chaek">> =>
              fn_result.value = ScenarioSynthetic

\* the builder was called with the raw query "정책" in the scenario's context
\* and returned the scenario's synthetic query
StopwordScenarioReturned ==
    /\ ScenarioContext
    /\ fn_args.raw_query = <<"jeong", "chaek">>
    /\ fn_result.value = ScenarioSynthetic

\* the raw query has a token of two or more characters that is no stopword
HasKeyword(raw_query) ==
    \E i \in DOMAIN FindAll(OrEmpty(raw_query), <<>>) :
        LET t == LowerText(FindAll(OrEmpty(raw_query), <<>>)[i])
        IN  Len(t) >= 2 /\ t \notin StopWords

\* value is text without the whitespace around it
IsTrimmed(text, value) ==
    /\ \E a, b \in 0 .. Len(text) :
          /\ a + b <= Len(text)
          /\ value = SubSeq(text, a + 1, Len(text) - b)
          /\ \A i \in 1 .. a : text[i] \in Whitespace
          /\ \A i \in (Len(text) - b + 1) .. Len(text) : text[i] \in Whitespace
    /\ value # <<>> => (value[1] \notin Whitespace /\ value[Len(value)] \notin Whitespace)

\* C18 as stated: when the raw query has a keyword the builder returns the
\* raw query unchanged, whatever the profile summary and the layers hold.
KeywordQueryReturnedUnchanged ==
    (fn_result.returned /\ HasKeyword(fn_args.raw_query)) =>
        fn_result.value = fn_args.raw_query

\* C18 amended: when the raw query has a keyword the builder returns the raw
\* query without the whitespace around it (unchanged when it has none),
\* whatever the profile summary and the layers hold.
KeywordQueryReturnedTrimmed ==
    (fn_result.returned /\ HasKeyword(fn_args.raw_query)) =>
        /\ IsTrimmed(fn_args.raw_query, fn_result.value)
        /\ HasKeyword(fn_result.value)

\* a raw query with a keyword and whitespace around it was returned trimmed,
\* a profile summary and layer objects being there
KeywordQueryTrimmedDespiteContext ==
    /\ fn_result.returned
    /\ HasKeyword(fn_args.raw_query)
    /\ fn_args.profile_summary_text = SummaryText
    /\ fn_args.collection_L0 # NoLayer
    /\ CollectLayerObjects(fn_args.collection_L0) # <<>>
    /\ fn_result.value # fn_args.raw_query
    /\ fn_result.value = <<"H", "e", "l", "l", "o", "?">>

\* the trimmed, non-empty object values of a layer, in order
LayerObjectValues(layer) ==
    IF ~layer.present THEN <<>>
    ELSE LET vals == [i \in 1 .. Len(layer.triples) |->
                         StripText(OrEmpty(layer.triples[i].object))]
         IN  SelectSeq(vals, LAMBDA o : o # <<>>)

\* the first up-to-five distinct values of objs, in order
FirstFiveDistinct(objs) ==
    LET indexed == [i \in 1 .. Len(objs) |-> [i |-> i, o |-> objs[i]]]
        firsts == SelectSeq(indexed, LAMBDA e : \A j \in 1 .. (e.i - 1) : objs[j] # e.o)
    IN  [k \in 1 .. Min(Len(firsts), 5) |-> firsts[k].o]

Matching == {i \in DOMAIN fn_args.store :
                fn_args.store[i].region = RegionFilter(fn_args.merged_profile)}

\* 1 - distance of document id, Null (below every number) without embedding
SimilarityOf(id) == IF Distance(id) = Null THEN Null ELSE Milli - Distance(id)

ReturnedIds == {fn_result.value[i].doc_id : i \in DOMAIN fn_result.value}

\* C20: with a region filter the search returns the top_k most similar of
\* the documents whose region equals the normalized filter value, in
\* descending similarity: the filter restricts the set before the LIMIT (so
\* top_k results whenever that many match), never more than top_k, and the
\* empty list when none matches.
RegionFilterBeforeLimit ==
    (fn_result.returned /\ RegionFilter(fn_args.merged_profile) # NoneText) =>
        /\ ReturnedIds \subseteq Matching
        /\ Len(fn_result.value) = Min(fn_args.top_k, Cardinality(Matching))
        /\ Cardinality(ReturnedIds) = Len(fn_result.value)
        /\ \A i \in DOMAIN fn_result.value :
              fn_result.value[i].similarity = SimilarityOf(fn_result.value[i].doc_id)
        /\ \A i, j \in DOMAIN fn_result.value :
              i < j => fn_result.value[i].similarity >= fn_result.value[j].similarity
        /\ \A id \in Matching \ ReturnedIds : \A i \in DOMAIN fn_result.value :
              fn_result.value[i].similarity >= SimilarityOf(id)
        /\ Matching = {} => fn_result.value = <<>>

\* more than top_k documents match the filter, top_k of them came back, and
\* a document of another region is closer to the query than one of them
RegionFilteredTopKReturned ==
    /\ fn_result.returned
    /\ RegionFilter(fn_args.merged_profile) # NoneText
    /\ Cardinality(Matching) > fn_args.top_k
    /\ Len(fn_result.value) = fn_args.top_k
    /\ fn_args.top_k = RAW_TOP_K
    /\ \E id \in DOMAIN fn_args.store \ Matching : \E i \in DOMAIN fn_result.value :
          SimilarityOf(id) > fn_result.value[i].similarity

(***************************************************************************)
(* Properties of _sanitize_region                                          *)
(***************************************************************************)
\* position k of text ends a whitespace-separated token with a region suffix
EndsSuffixToken(text, k) ==
    /\ text[k] \in RegionSuffixes
    /\ k = Len(text) \/ text[k + 1] \in Whitespace

\* text[p .. q] is a whole whitespace-separated token
IsToken(text, p, q) ==
    /\ p <= q
    /\ \A i \in p .. q : text[i] \notin Whitespace
    /\ p = 1 \/ text[p - 1] \in Whitespace
    /\ q = Len(text) \/ text[q + 1] \in Whitespace

IsBlank(text) == \A i \in DOMAIN text : text[i] \in Whitespace

\* C21: for a region text that is not blank, normalization returns the last
\* whitespace-separated token ending in 구/군/동/시, and the trimmed text when
\* no token ends so; "서울특별시 동작구" gives "동작구", "Unknown" gives itself.
SanitizeReturnsLastSuffixToken ==
    (fn_result.returned /\ fn_args.value # NoneText /\ ~IsBlank(fn_args.value)) =>
        LET text == fn_args.value
            ends == {k \in DOMAIN text : EndsSuffixToken(text, k)}
        IN  /\ ends # {} =>
                \E p \in DOMAIN text : \E q \in ends :
                    /\ IsToken(text, p, q)
                    /\ \A k \in ends : k <= q
                    /\ fn_result.value = SubSeq(text, p, q)
            /\ ends = {} => IsTrimmed(text, fn_result.value)
            /\ text = SeoulTeukbyeolsiDongjakGu => fn_result.value = DongjakGu
            /\ text = Unknown => fn_result.value = Unknown

\* a text with two suffixed tokens and trailing whitespace was normalized to
\* the later token
LaterSuffixTokenReturned ==
    /\ fn_result.returned
    /\ fn_args.value = <<"si", " ", "gu", " ">>
    /\ fn_result.value = <<"gu">>

\* a region value that is None, a dict without value, or a blank string
NoUsableRegion(region_value) ==
    region_value.value = NoneText \/ IsBlank(region_value.value)

\* no profile, or the region value the search reads from it is not usable:
\* residency_sgg_code, and region_gu when that key is missing or None
RegionDataMissing ==
    \/ ~fn_args.merged_profile.present
    \/ /\ NoUsableRegion(fn_args.merged_profile.residency_sgg_code)
       /\ fn_args.merged_profile.residency_sgg_code = NoRegion
            => NoUsableRegion(fn_args.merged_profile.region_gu)

\* C22: with no profile, no region key, None, a dict without value or a
\* blank string as region the search returns all the same, with no region
\* predicate: the top_k most similar documents of the whole store.
MissingRegionSearchesWholeStore ==
    (fn_result # NoResult /\ RegionDataMissing) =>
        /\ fn_result.returned
        /\ ReturnedIds \subseteq DOMAIN fn_args.store
        /\ Cardinality(ReturnedIds) = Min(fn_args.top_k, Len(fn_args.store))
        /\ Len(fn_result.value) = Cardinality(ReturnedIds)
        /\ \A id \in DOMAIN fn_args.store \ ReturnedIds : \A i \in DOMAIN fn_result.value :
              fn_result.value[i].similarity >= SimilarityOf(id)

\* a profile whose region is a blank string: documents of two different
\* regions came back
BlankRegionReturnedSeveralRegions ==
    /\ fn_result.returned
    /\ fn_args.merged_profile.present
    /\ fn_args.merged_profile.residency_sgg_code = RegionValue(FALSE, <<" ">>)
    /\ \E i, j \in DOMAIN fn_result.value :
          fn_args.store[fn_result.value[i].doc_id].region
              # fn_args.store[fn_result.value[j].doc_id].region

(***************************************************************************)
(* Properties of the BM25 terms and scores                                 *)
(***************************************************************************)
\* how often the tokenizer gives tok for the object + code text of the
\* triples of a layer
Occurrences(layer, tok) ==
    Cardinality({ij \in (DOMAIN layer.triples) \X (1 .. 4) :
                    LET text == layer.triples[ij[1]].object \o layer.triples[ij[1]].code
                    IN  ij[2] <= Len(text) /\ Lower(text[ij[2]]) = tok})

TermTokens == {"diabetes", "e11", "care", "E11"}

\* C23: in the terms of the layers every token of the object + code text of
\* a triple occurs 3 times per occurrence in L0, 2 times per occurrence in L1
\* and once per occurrence in L2, and nothing else occurs.
TermCountsAreLayerWeighted ==
    fn_result.returned =>
        /\ \A tok \in TermTokens :
              Count(fn_result.value, tok)
                  = 3 * Occurrences(fn_args.L0, tok) + 2 * Occurrences(fn_args.L1, tok)
                        + 1 * Occurrences(fn_args.L2, tok)
        /\ Range(fn_result.value) \subseteq TermTokens

\* a token that occurs in all three layers, twice in L0 (once as "E11")
TokenOfThreeLayersCounted ==
    /\ fn_result.returned
    /\ Occurrences(fn_args.L0, "e11") = 2
    /\ Occurrences(fn_args.L1, "e11") = 1
    /\ Occurrences(fn_args.L2, "e11") = 1
    /\ Count(fn_result.value, "e11") = 9

\* the document of candidate d shares no token with the query terms
NoOverlap(d) == Range(DocTokens(d.doc_id)) \cap Range(fn_args.query_terms) = {}

\* (1 - BM25_WEIGHT) * similarity
SimilarityShare(d) == ((Milli - BM25_WEIGHT) * d.similarity) \div Milli

\* C24 as stated: for every term multiset, the empty one included, a
\* candidate without common token has BM25 score 0 and the score
\* (1 - BM25_WEIGHT) * similarity.
NoOverlapScoreAlwaysReduced ==
    fn_result.returned =>
        \A i \in DOMAIN fn_result.value :
            (NoOverlap(fn_result.value[i]) /\ fn_result.value[i].similarity # Null) =>
                /\ fn_result.value[i].bm25_score = 0
                /\ fn_result.value[i].score = SimilarityShare(fn_result.value[i])

\* C24: for every term multiset that is not empty, a candidate without
\* common token has BM25 score 0 and the score (1 - BM25_WEIGHT) *
\* similarity; with no terms the candidates keep the score they came with,
\* the similarity, and get no BM25 score.
NoOverlapScoreReducedUnlessNoTerms ==
    fn_result.returned =>
        \A i \in DOMAIN fn_result.value :
            (NoOverlap(fn_result.value[i]) /\ fn_result.value[i].similarity # Null) =>
                IF fn_args.query_terms # <<>>
                THEN /\ fn_result.value[i].bm25_score = 0
                     /\ fn_result.value[i].score = SimilarityShare(fn_result.value[i])
                ELSE /\ fn_result.value[i].bm25_score = Null
                     /\ fn_result.value[i].score = fn_result.value[i].similarity

\* a candidate without common token next to one with a positive BM25 score
NoOverlapBesideScoredCandidate ==
    /\ fn_result.returned
    /\ \E i, j \in DOMAIN fn_result.value :
          /\ NoOverlap(fn_result.value[i])
          /\ fn_result.value[i].similarity > 0
          /\ fn_result.value[i].score = SimilarityShare(fn_result.value[i])
          /\ fn_result.value[i].score < fn_result.value[i].similarity
          /\ fn_result.value[j].bm25_score > 0

(***************************************************************************)
(* Properties of the final order                                           *)
(***************************************************************************)
\* a may stand before b: b has no score, or both have one and a's is not less
MayPrecede(a, b) == b.score = Null \/ (a.score # Null /\ a.score >= b.score)

\* descending score, the candidates without score after all others
InRankedOrder(docs) ==
    \A i, j \in DOMAIN docs : i < j => MayPrecede(docs[i], docs[j])

DocIds(docs) == {docs[i].doc_id : i \in DOMAIN docs}

\* C25 as stated: the list handed to answer generation is in descending
\* order of score, the candidates without score last.
ReturnedListInRankedOrder ==
    npc = "done" => InRankedOrder(out.rag_snippets)

\* C25: the retrieved candidates handed to answer generation are in
\* descending order of score with those without score last, and the sort and
\* cut step keeps exactly the first CONTEXT_TOP_K of that order; the system
\* snippet, of score 1, is appended after them whatever their scores are.
RetrievedInRankedOrderCutToContext ==
    /\ [](npc = "done" =>
            /\ InRankedOrder(Retrieved(out.rag_snippets))
            /\ \A i \in DOMAIN out.rag_snippets :
                  out.rag_snippets[i].doc_id = SystemDocId => i = Len(out.rag_snippets))
    /\ [][npc = "reranked" =>
            /\ InRankedOrder(rag_docs')
            /\ Len(rag_docs') = Min(CONTEXT_TOP_K, Len(rag_docs))
            /\ DocIds(rag_docs') \subseteq DocIds(rag_docs)
            /\ Cardinality(DocIds(rag_docs')) = Len(rag_docs')
            /\ \A i \in DOMAIN rag_docs : \A k \in DOMAIN rag_docs' :
                  rag_docs[i].doc_id \notin DocIds(rag_docs')
                      => MayPrecede(rag_docs'[k], rag_docs[i])
            /\ \A k \in DOMAIN rag_docs' : \E i \in DOMAIN rag_docs : rag_docs'[k] = rag_docs[i]
       ]_vars

\* more than CONTEXT_TOP_K candidates of different scores were ranked and
\* cut, and the system snippet follows a candidate of lower score
CutListThenPersistOfHigherScore ==
    /\ npc = "done"
    /\ Len(hist.post_floor) > CONTEXT_TOP_K
    /\ Len(out.rag_snippets) = CONTEXT_TOP_K + 1
    /\ out.rag_snippets[1].score > out.rag_snippets[CONTEXT_TOP_K].score
    /\ out.rag_snippets[CONTEXT_TOP_K].score # Null
    /\ out.rag_snippets[CONTEXT_TOP_K + 1].doc_id = SystemDocId
    /\ out.rag_snippets[CONTEXT_TOP_K + 1].score > out.rag_snippets[CONTEXT_TOP_K].score

\* C26: after re-ranking, the score of every candidate whose similarity is
\* in [0, 1] lies in [0, 1] (BM25_WEIGHT is in [0, 1]).
HybridScoreInUnitInterval ==
    (fn_result.returned /\ fn_args.query_terms # <<>>) =>
        \A i \in DOMAIN fn_result.value :
            (fn_result.value[i].similarity >= 0 /\ fn_result.value[i].similarity <= Milli) =>
                /\ fn_result.value[i].score >= 0
                /\ fn_result.value[i].score <= Milli

\* how often term occurs in the document of candidate d
TermFrequency(d, term) == Count(DocTokens(d.doc_id), term)

\* C27: of two candidates of one candidate set (so of the same avgdl and
\* document frequencies) with documents of the same length, the one in
\* which every query term is at least as frequent has a BM25 score that is
\* not less.
Bm25MonotoneInTermFrequency ==
    (fn_result.returned /\ fn_args.query_terms # <<>>) =>
        \A i, j \in DOMAIN fn_result.value :
            (/\ DocLen(fn_result.value[i]) = DocLen(fn_result.value[j])
             /\ \A term \in Range(fn_args.query_terms) :
                   TermFrequency(fn_result.value[i], term)
                       <= TermFrequency(fn_result.value[j], term))
                => fn_result.value[i].bm25_score <= fn_result.value[j].bm25_score

(***************************************************************************)
(* Properties of the sermon agent graph                                    *)
(***************************************************************************)
\* the list of nodes the router result fixes for a run
NodesDue(state) ==
    IF state.next = "end" THEN <<"query_router">>
    ELSE IF state.router.use_rag
    THEN <<"query_router", "sermon_retriever", "answer_creator">>
    ELSE <<"query_router", "answer_creator">>

IsPrefix(s, t) == Len(s) <= Len(t) /\ s = SubSeq(t, 1, Len(s))

\* C28: every run of the sermon agent graph ends, having executed the nodes
\* the router result fixes: query_router alone when next is "end" (whatever
\* use_rag is), else sermon_retriever then answer_creator when use_rag is
\* true and answer_creator alone when it is false; answer_creator never
\* executes before sermon_retriever.
RunEndsInRouterOrder ==
    /\ <>(gnode = "end")
    /\ [](executed # <<>> => IsPrefix(executed, NodesDue(sermon_state)))
    /\ [](gnode = "end" => executed = NodesDue(sermon_state))
    /\ [](\A i, j \in DOMAIN executed :
            (executed[i] = "answer_creator" /\ executed[j] = "sermon_retriever") => j < i)
    /\ [](\A use_rag \in BOOLEAN :
            RouteAfterRouter([sermon_state EXCEPT
                                 !.next = "end",
                                 !.router = [set |-> TRUE, use_rag |-> use_rag]]) = "end")

\* a run that the router sent to the retriever has ended after all three
\* nodes
RunOverRetrieverEnded ==
    /\ gnode = "end"
    /\ sermon_state.next = "sermon_retriever"
    /\ executed = <<"query_router", "sermon_retriever", "answer_creator">>

RetrieverExecuted == "sermon_retriever" \in Range(executed)

\* C30 as stated: when embedding or the store query throws, the node returns
\* no snippets and a retrieval record with the error field set and count 0.
EmbedOrStoreFailureSetsError ==
    (RetrieverExecuted /\ (sermon_state.embed_failed \/ sermon_state.store_failed)) =>
        /\ sermon_state.rag_snippets = <<>>
        /\ sermon_state.retrieval.error
        /\ sermon_state.retrieval.count = 0

\* C30: sermon_retriever_node always returns; when the store query throws it
\* returns no snippets and a retrieval record with the error field set and
\* count 0, unlike a search that found nothing (no error field); a failure
\* of the embedding model alone sets no error field: the search goes on and
\* its rows are returned; in every case answer_creator executes next.
StoreFailureSetsErrorEmbedFailureDoesNot ==
    /\ [](RetrieverExecuted =>
            /\ sermon_state.retrieval.set
            /\ sermon_state.retrieval.count = Len(sermon_state.rag_snippets)
            /\ sermon_state.store_failed =>
                  /\ sermon_state.rag_snippets = <<>>
                  /\ sermon_state.retrieval.error
                  /\ sermon_state.retrieval.count = 0
            /\ ~sermon_state.store_failed => ~sermon_state.retrieval.error)
    /\ [][gnode = "sermon_retriever" =>
            /\ executed' = Append(executed, "sermon_retriever")
            /\ gnode' = "answer_creator"]_vars
    /\ [](gnode = "end" /\ RetrieverExecuted => sermon_state.answer)

\* the embedding model failed, the store answered, and the run ended with
\* snippets and no error field
EmbedFailedRowsReturnedWithoutError ==
    /\ gnode = "end"
    /\ sermon_state.embed_failed
    /\ ~sermon_state.store_failed
    /\ sermon_state.rag_snippets # <<>>
    /\ ~sermon_state.retrieval.error
    /\ sermon_state.answer

(***************************************************************************)
(* Properties of ConversationSession                                       *)
(***************************************************************************)
UserMessages(msgs) == Cardinality({i \in DOMAIN msgs : msgs[i].role = "user"})

\* C29: history has at most 2 * max_history entries and is the most recent
\* of the messages added since the last clear, in their order; turn_count
\* is the number of user messages added since the last clear, trimmed away
\* or not.
HistoryIsRecentWindow ==
    LET kept == Min(2 * session.max_history, Len(since_clear))
    IN  /\ Len(session.history) <= 2 * session.max_history
        /\ Len(session.history) = kept
        /\ \A i \in 1 .. kept :
              session.history[i] = since_clear[Len(since_clear) - kept + i]
        /\ session.turn_count = UserMessages(since_clear)

\* a session of the default max_history has trimmed user messages away and
\* still counts them
TrimmedSessionCountsAllTurns ==
    /\ session.max_history = DefaultMaxHistory
    /\ Len(since_clear) > 2 * DefaultMaxHistory
    /\ Len(session.history) = 2 * DefaultMaxHistory
    /\ session.turn_count > UserMessages(session.history)

====
